---- MODULE Spec2Model ----
(***************************************************************************)
(* Model of the SMS classification / extraction engine of                  *)
(* Message_Parsing/Backend (main_with_api.py and routes.py).               *)
(*                                                                         *)
(* Python strings are TLA+ strings; a character is a string of length 1.   *)
(* Python values are tagged records (see the Py* constructors).            *)
(***************************************************************************)
EXTENDS Integers, Sequences, FiniteSets, TLC

VARIABLES
    date_str,     \* argument of parse_date
    date_out,     \* value returned by parse_date ("pending" before the call)
    date_raised,  \* TRUE iff an exception escaped parse_date
    cls_message,  \* argument of classify_message_type
    cls_main,     \* value returned by main_with_api.classify_message_type
    cls_routes,   \* value returned by routes.classify_message_type
    san_data,     \* argument of sanitize_llm_data (a dict: field name -> value)
    san_main,     \* value returned by main_with_api.sanitize_llm_data
    san_routes,   \* value returned by routes.sanitize_llm_data
    san_twice,    \* value returned by main_with_api.sanitize_llm_data for san_main
    core_api,     \* which core handles the message: "main" or "routes"
    core_message, \* the message text
    core_hint,    \* the caller's date hint (process_single_message's date_str)
    core_pc,      \* where the handler is: "start", "llm", "analyzed", "done"
    core_response,\* the answer of the text-generation service
    core_llm,     \* llm_result: what analyze_with_llm returned
    core_out,     \* what the handler returned or raised
    core_path,    \* the path that produced the result: "remote", "fallback", "none"
    db_rows,      \* the rows committed to the database
    db_id,        \* what store_financial_data returned: "id", "null", "raised";
                  \* "not_called" when it was not called
    num_str,      \* argument of clean_numeric_string
    num_out,      \* value returned by clean_numeric_string
    num_twice,    \* value returned by clean_numeric_string for num_out
    ext_type,     \* message_type argument of extract_financial_data
    ext_message,  \* message argument of extract_financial_data
    ext_main,     \* value returned by main_with_api.extract_financial_data
    ext_routes,   \* value returned by routes.extract_financial_data
    processing_status, \* the global dict of main_with_api (line 108)
    batch_reqs,   \* the batch requests: where each handler and its background task is
    status_seen   \* what the last call of get_processing_status returned

(***************************************************************************)
(* Characters and strings                                                  *)
(***************************************************************************)
At(s, i) == IF i \in 1..Len(s) THEN SubSeq(s, i, i) ELSE ""

CharsOf(s) == { SubSeq(s, i, i) : i \in 1..Len(s) }

Digits == CharsOf("0123456789")
Uppers == CharsOf("ABCDEFGHIJKLMNOPQRSTUVWXYZ")
Lowers == CharsOf("abcdefghijklmnopqrstuvwxyz")
Letters == Uppers \cup Lowers
\* str.strip() and the regex class \s: the whitespace characters of the model
WhiteSpace == {" ", "\t", "\n"}

IndexIn(alphabet, c) == CHOOSE i \in 1..Len(alphabet) : SubSeq(alphabet, i, i) = c

UpperMap == [c \in Lowers |-> At("ABCDEFGHIJKLMNOPQRSTUVWXYZ", IndexIn("abcdefghijklmnopqrstuvwxyz", c))]
LowerMap == [c \in Uppers |-> At("abcdefghijklmnopqrstuvwxyz", IndexIn("ABCDEFGHIJKLMNOPQRSTUVWXYZ", c))]

UpperChar(c) == IF c \in Lowers THEN UpperMap[c] ELSE c
LowerChar(c) == IF c \in Uppers THEN LowerMap[c] ELSE c

\* str.upper() and str.lower(), by halves
RECURSIVE StrUpper(_)
StrUpper(s) ==
    IF Len(s) = 0 THEN ""
    ELSE IF Len(s) = 1 THEN UpperChar(s)
    ELSE LET mid == Len(s) \div 2
         IN  StrUpper(SubSeq(s, 1, mid)) \o StrUpper(SubSeq(s, mid + 1, Len(s)))

RECURSIVE StrLower(_)
StrLower(s) ==
    IF Len(s) = 0 THEN ""
    ELSE IF Len(s) = 1 THEN LowerChar(s)
    ELSE LET mid == Len(s) \div 2
         IN  StrLower(SubSeq(s, 1, mid)) \o StrLower(SubSeq(s, mid + 1, Len(s)))

SetMin(S) == CHOOSE x \in S : \A y \in S : x <= y
SetMax(S) == CHOOSE x \in S : \A y \in S : x >= y

\* str.zfill(2) of a string of digits
Zfill2(s) == IF Len(s) < 2 THEN "0" \o s ELSE s

RECURSIVE StrToNat(_)
StrToNat(s) ==
    IF s = "" THEN 0
    ELSE 10 * StrToNat(SubSeq(s, 1, Len(s) - 1)) + IndexIn("0123456789", At(s, Len(s))) - 1

RECURSIVE NatToStr(_)
NatToStr(n) ==
    IF n < 10 THEN At("0123456789", n + 1)
    ELSE NatToStr(n \div 10) \o At("0123456789", (n % 10) + 1)

(***************************************************************************)
(* Python values                                                           *)
(***************************************************************************)
PyNone == [t |-> "None"]
PyStr(s) == [t |-> "str", v |-> s]
PyInt(n) == [t |-> "int", v |-> n]
\* the float m / 10^e, with e = 0 or m not a multiple of 10
PyFloat(m, e) == [t |-> "float", m |-> m, e |-> e]
PyBool(b) == [t |-> "bool", v |-> b]
\* a value of another type (a list, a nested dict), with its str()
PyOther(r) == [t |-> "other", r |-> r]

EmptyDict == [k \in {} |-> PyNone]
\* a dict is a function from its keys; a value is a record with the tag t
IsDict(d) == "t" \notin DOMAIN d

RECURSIVE LStrip(_)
LStrip(s) == IF s # "" /\ Head(s) \in WhiteSpace THEN LStrip(Tail(s)) ELSE s
RECURSIVE RStrip(_)
RStrip(s) == IF s # "" /\ At(s, Len(s)) \in WhiteSpace THEN RStrip(SubSeq(s, 1, Len(s) - 1)) ELSE s
\* str.strip()
Strip(s) == RStrip(LStrip(s))

\* str.count(c), str.find(c) (0 when absent; positions count from 1), str.replace(c, '')
StrCount(s, c) == Cardinality({ i \in 1..Len(s) : At(s, i) = c })
StrFind(s, c) == IF StrCount(s, c) > 0 THEN SetMin({ i \in 1..Len(s) : At(s, i) = c }) ELSE 0
RECURSIVE RemoveAll(_, _)
RemoveAll(s, c) ==
    IF s = "" THEN ""
    ELSE (IF Head(s) = c THEN "" ELSE Head(s)) \o RemoveAll(Tail(s), c)

RECURSIVE Pow10(_)
Pow10(e) == IF e = 0 THEN 1 ELSE 10 * Pow10(e - 1)

RECURSIVE NormFloat(_, _)
NormFloat(m, e) == IF e > 0 /\ m % 10 = 0 THEN NormFloat(m \div 10, e - 1) ELSE PyFloat(m, e)

\* The numeric literal in s, as float() and int() read it: blanks around it are
\* ignored, a sign may lead, then decimal digits with at most one point (int(): none).
\* (Exponents, underscores, inf and nan are outside the strings of this model.)
NumBody(s) == LET u == Strip(s) IN IF u # "" /\ Head(u) \in {"+", "-"} THEN Tail(u) ELSE u
NumSign(s) == LET u == Strip(s) IN IF u # "" /\ Head(u) = "-" THEN -1 ELSE 1
FloatParses(s) ==
    LET b == NumBody(s)
    IN  /\ \A i \in 1..Len(b) : At(b, i) \in Digits \cup {"."}
        /\ StrCount(b, ".") <= 1
        /\ \E i \in 1..Len(b) : At(b, i) \in Digits
IntParses(s) ==
    LET b == NumBody(s)
    IN  b # "" /\ \A i \in 1..Len(b) : At(b, i) \in Digits
\* float(s) and int(s) where they do not raise ValueError
FloatOf(s) ==
    LET b == NumBody(s)
        dot == StrFind(b, ".")
        frac == IF dot = 0 THEN 0 ELSE Len(b) - dot
    IN  NormFloat(NumSign(s) * StrToNat(RemoveAll(b, ".")), frac)
IntOf(s) == PyInt(NumSign(s) * StrToNat(NumBody(s)))

RECURSIVE PadLeft(_, _)
PadLeft(s, n) == IF Len(s) >= n THEN s ELSE PadLeft("0" \o s, n)
\* str(value); a float of the magnitudes of this model has no exponent notation
PyStrOf(v) ==
    CASE v.t = "None" -> "None"
      [] v.t = "str" -> v.v
      [] v.t = "int" -> IF v.v < 0 THEN "-" \o NatToStr(-v.v) ELSE NatToStr(v.v)
      [] v.t = "float" ->
            LET a == IF v.m < 0 THEN -v.m ELSE v.m
                sign == IF v.m < 0 THEN "-" ELSE ""
            IN  IF v.e = 0 THEN sign \o NatToStr(a) \o ".0"
                ELSE sign \o NatToStr(a \div Pow10(v.e)) \o "."
                          \o PadLeft(NatToStr(a % Pow10(v.e)), v.e)
      [] v.t = "bool" -> (IF v.v THEN "True" ELSE "False")
      [] v.t = "other" -> v.r

(***************************************************************************)
(* Regular expressions (Python's re): a pattern is a tagged tuple, built   *)
(* by the constructors below.  Matching follows the backtracking matcher:  *)
(* alternatives in order, greedy repetitions longest first, lazy ones      *)
(* shortest first.                                                         *)
(***************************************************************************)
Lit(str) == <<"lit", str>>                     \* the characters of str
Cls(set) == <<"cls", set, FALSE>>              \* [...]
NotCls(set) == <<"cls", set, TRUE>>            \* [^...]
Cat(items) == <<"cat", items>>                 \* r1 r2 ...
Alt(items) == <<"alt", items>>                 \* r1|r2|...
Rep(r, min, max) == <<"rep", r, min, max, TRUE>>       \* r{min,max}
LazyRep(r, min, max) == <<"rep", r, min, max, FALSE>>  \* r{min,max}?
Grp(k, r) == <<"grp", k, r>>                   \* the k-th capturing group
Inf == -1
Opt(r) == Rep(r, 0, 1)
Star(r) == Rep(r, 0, Inf)
Plus(r) == Rep(r, 1, Inf)

\* ic: re.IGNORECASE
LitAt(str, s, i, ic) ==
    /\ i + Len(str) - 1 <= Len(s)
    /\ \A k \in 1..Len(str) :
            \/ At(s, i + k - 1) = At(str, k)
            \/ ic /\ LowerChar(At(s, i + k - 1)) = LowerChar(At(str, k))
ClsAt(set, neg, s, i, ic) ==
    /\ i <= Len(s)
    /\ neg # (\/ At(s, i) \in set
              \/ ic /\ (LowerChar(At(s, i)) \in set \/ UpperChar(At(s, i)) \in set))

\* the length of the run of characters of the class at position i
RunLength(set, neg, s, i, ic) ==
    (CHOOSE j \in i..(Len(s) + 1) :
        /\ ~ClsAt(set, neg, s, j, ic)
        /\ \A k \in i..(j - 1) : ClsAt(set, neg, s, k, ic)) - i

RECURSIVE M(_, _, _, _, _), MCat(_, _, _, _, _), MCatEach(_, _, _, _, _, _),
          MAlt(_, _, _, _, _, _, _), MRep(_, _, _, _, _, _, _, _),
          MRepEach(_, _, _, _, _, _, _, _, _, _)
\* the matches of re at position i, in the order the matcher tries them: a sequence
\* of <<end position, groups>>
M(re, s, i, g, ic) ==
    CASE re[1] = "lit" -> IF LitAt(re[2], s, i, ic) THEN << <<i + Len(re[2]), g>> >> ELSE <<>>
      [] re[1] = "cls" -> IF ClsAt(re[2], re[3], s, i, ic) THEN << <<i + 1, g>> >> ELSE <<>>
      [] re[1] = "cat" -> MCat(re[2], s, i, g, ic)
      [] re[1] = "alt" -> MAlt(re[2], 1, Len(re[2]), s, i, g, ic)
      [] re[1] = "rep" -> MRep(re[2], re[3], re[4], re[5], s, i, g, ic)
      [] re[1] = "grp" ->
            LET rs == M(re[3], s, i, g, ic)
            IN  [k \in 1..Len(rs) |->
                    <<rs[k][1], (re[2] :> <<i, rs[k][1] - 1>>) @@ rs[k][2]>>]
MCat(items, s, i, g, ic) ==
    IF items = <<>> THEN << <<i, g>> >>
    ELSE LET rs == M(Head(items), s, i, g, ic)
         IN  MCatEach(rs, 1, Len(rs), Tail(items), s, ic)
\* the matches of items after each of rs[lo..hi], in order
MCatEach(rs, lo, hi, items, s, ic) ==
    IF lo > hi THEN <<>>
    ELSE IF lo = hi THEN MCat(items, s, rs[lo][1], rs[lo][2], ic)
    ELSE LET mid == (lo + hi) \div 2
         IN  MCatEach(rs, lo, mid, items, s, ic) \o MCatEach(rs, mid + 1, hi, items, s, ic)
MAlt(items, lo, hi, s, i, g, ic) ==
    IF lo > hi THEN <<>>
    ELSE IF lo = hi THEN M(items[lo], s, i, g, ic)
    ELSE LET mid == (lo + hi) \div 2
         IN  MAlt(items, lo, mid, s, i, g, ic) \o MAlt(items, mid + 1, hi, s, i, g, ic)
MRep(r, min, max, greedy, s, i, g, ic) ==
    IF r[1] = "cls"
    THEN \* a repeated character class: every length from min to the run's length
         LET Capped(run) == IF max >= 0 /\ max < run THEN max ELSE run
             Lengths(n) ==
                IF n < min THEN <<>>
                ELSE [k \in 1..(n - min + 1) |->
                        <<i + (IF greedy THEN n - k + 1 ELSE min + k - 1), g>>]
         IN  Lengths(Capped(RunLength(r[2], r[3], s, i, ic)))
    ELSE LET stop == IF min <= 0 THEN << <<i, g>> >> ELSE <<>>
             rs == M(r, s, i, g, ic)
             more == IF max = 0 THEN <<>>
                     ELSE MRepEach(rs, 1, Len(rs), r, min, max, greedy, s, i, ic)
         IN  IF greedy THEN more \o stop ELSE stop \o more
MRepEach(rs, lo, hi, r, min, max, greedy, s, i, ic) ==
    IF lo > hi THEN <<>>
    ELSE IF lo = hi
    THEN IF rs[lo][1] > i
         THEN MRep(r, IF min > 0 THEN min - 1 ELSE 0, IF max > 0 THEN max - 1 ELSE max,
                   greedy, s, rs[lo][1], rs[lo][2], ic)
         ELSE <<>>
    ELSE LET mid == (lo + hi) \div 2
         IN  MRepEach(rs, lo, mid, r, min, max, greedy, s, i, ic)
             \o MRepEach(rs, mid + 1, hi, r, min, max, greedy, s, i, ic)

NoMatch == <<>>
\* re.search(re, s): the first match at the leftmost position that has one, as
\* <<start, end, groups>>; NoMatch when there is none
Search(re, s, ic) ==
    LET NoGroups == [j \in {} |-> <<0, 0>>]
        MatchAt(i, r) == <<i, r[1], r[2]>>
        Leftmost(starts) ==
            IF starts = {} THEN NoMatch
            ELSE MatchAt(SetMin(starts), M(re, s, SetMin(starts), NoGroups, ic)[1])
    IN  Leftmost({ i \in 1..(Len(s) + 1) : M(re, s, i, NoGroups, ic) # <<>> })
\* match.groups() of the match m in s; <<>> when there is no match
Groups(m, s) ==
    IF m = NoMatch THEN <<>>
    ELSE [k \in DOMAIN m[3] |-> SubSeq(s, m[3][k][1], m[3][k][2])]

(***************************************************************************)
(* parse_date (main_with_api.py)                                           *)
(***************************************************************************)
\* month_map.get(name, '01')
MonthNames == <<"JAN", "FEB", "MAR", "APR", "MAY", "JUN", "JUL", "AUG", "SEP", "OCT", "NOV", "DEC">>
MonthMapGet(name) ==
    IF \E k \in 1..12 : MonthNames[k] = name
    THEN Zfill2(NatToStr(CHOOSE k \in 1..12 : MonthNames[k] = name))
    ELSE "01"

\* (\d{1,2})[-\s/]([A-Za-z]{3})[-\s/](\d{2,4})
pattern1 ==
    Cat(<< Grp(1, Rep(Cls(Digits), 1, 2)), Cls({"-", "/"} \cup WhiteSpace),
           Grp(2, Rep(Cls(Letters), 3, 3)), Cls({"-", "/"} \cup WhiteSpace),
           Grp(3, Rep(Cls(Digits), 2, 4)) >>)
\* (\d{1,2})[-/](\d{1,2})[-/](\d{4})
pattern2 ==
    Cat(<< Grp(1, Rep(Cls(Digits), 1, 2)), Cls({"-", "/"}), Grp(2, Rep(Cls(Digits), 1, 2)),
           Cls({"-", "/"}), Grp(3, Rep(Cls(Digits), 4, 4)) >>)
\* (\d{4})[-/](\d{1,2})[-/](\d{1,2})
pattern3 ==
    Cat(<< Grp(1, Rep(Cls(Digits), 4, 4)), Cls({"-", "/"}), Grp(2, Rep(Cls(Digits), 1, 2)),
           Cls({"-", "/"}), Grp(3, Rep(Cls(Digits), 1, 2)) >>)
\* (\d{2})[-/](\d{1,2})[-/](\d{1,2})
pattern4 ==
    Cat(<< Grp(1, Rep(Cls(Digits), 2, 2)), Cls({"-", "/"}), Grp(2, Rep(Cls(Digits), 1, 2)),
           Cls({"-", "/"}), Grp(3, Rep(Cls(Digits), 1, 2)) >>)

\* PatternResult reading the groups of pattern4 as day, month, year
PatternResultDayFirst(k, g) ==
    CASE k = 1 ->
            (IF Len(g[3]) = 2 THEN "20" \o g[3] ELSE g[3])
            \o "-" \o MonthMapGet(StrUpper(g[2])) \o "-" \o Zfill2(g[1])
      [] k = 2 ->
            g[3] \o "-" \o Zfill2(g[2]) \o "-" \o Zfill2(g[1])
      [] k = 3 ->
            g[1] \o "-" \o Zfill2(g[2]) \o "-" \o Zfill2(g[3])
      [] k = 4 ->
            ("20" \o g[3]) \o "-" \o Zfill2(g[2]) \o "-" \o Zfill2(g[1])

\* the string the branch of pattern k returns, from the groups g of its match
PatternResult(k, g) ==
    CASE k = 1 ->   \* day, month_str, year
            (IF Len(g[3]) = 2 THEN "20" \o g[3] ELSE g[3])
            \o "-" \o MonthMapGet(StrUpper(g[2])) \o "-" \o Zfill2(g[1])
      [] k = 2 ->   \* day, month, year
            g[3] \o "-" \o Zfill2(g[2]) \o "-" \o Zfill2(g[1])
      [] k = 3 ->   \* year, month, day
            g[1] \o "-" \o Zfill2(g[2]) \o "-" \o Zfill2(g[3])
      [] k = 4 ->   \* year, month, day
            ("20" \o g[1]) \o "-" \o Zfill2(g[2]) \o "-" \o Zfill2(g[3])

(***************************************************************************)
(* datetime.strptime(date_str, fmt) followed by strftime("%Y-%m-%d"), for  *)
(* the five templates of parse_date's fallback loop.  A template is a      *)
(* sequence of items: a directive letter (d, m, b, y, Y) or a literal.     *)
(***************************************************************************)
StrptimeFormats ==
    << <<"d", "-", "b", "-", "y">>,
       <<"d", "/", "m", "/", "Y">>,
       <<"d", "-", "m", "-", "Y">>,
       <<"Y", "-", "m", "-", "d">>,
       <<"y", "-", "m", "-", "d">> >>

\* The lengths, in the regex's order of preference, that a template item can match at
\* position i.  %d is 3[0-1]|[1-2]\d|0[1-9]|[1-9]| [1-9]; %m is 1[0-2]|0[1-9]|[1-9];
\* %b is a month abbreviation (case-insensitive); %y is \d\d; %Y is \d\d\d\d.
DirectiveAlts(item, s, i) ==
    LET a == At(s, i)
        b == At(s, i + 1)
        Two(ok) == IF ok THEN <<2>> ELSE <<>>
        One(ok) == IF ok THEN <<1>> ELSE <<>>
    IN  CASE item = "d" ->
                Two(\/ a = "3" /\ b \in {"0", "1"}
                    \/ a \in {"1", "2"} /\ b \in Digits
                    \/ a = "0" /\ b \in Digits \ {"0"})
                \o One(a \in Digits \ {"0"})
                \o Two(a = " " /\ b \in Digits \ {"0"})
          [] item = "m" ->
                Two(\/ a = "1" /\ b \in {"0", "1", "2"}
                    \/ a = "0" /\ b \in Digits \ {"0"})
                \o One(a \in Digits \ {"0"})
          [] item = "b" ->
                IF i + 2 <= Len(s) /\ \E k \in 1..12 : MonthNames[k] = StrUpper(SubSeq(s, i, i + 2))
                THEN <<3>> ELSE <<>>
          [] item = "y" -> IF \A k \in i..(i + 1) : At(s, k) \in Digits THEN <<2>> ELSE <<>>
          [] item = "Y" -> IF \A k \in i..(i + 3) : At(s, k) \in Digits THEN <<4>> ELSE <<>>
          [] OTHER -> IF a = item THEN <<1>> ELSE <<>>

\* The item boundaries of the regex match of items at position i (<<>> when it fails):
\* the first alternative of each item, in order, for which the rest matches.
RECURSIVE FormatMatch(_, _, _)
FormatMatch(s, i, items) ==
    IF items = <<>> THEN <<i>>
    ELSE LET First(alts, ok) ==
                IF ok = {} THEN <<>>
                ELSE <<i>> \o FormatMatch(s, i + alts[SetMin(ok)], Tail(items))
             Try(alts) ==
                First(alts, { k \in 1..Len(alts) :
                                FormatMatch(s, i + alts[k], Tail(items)) # <<>> })
         IN  Try(DirectiveAlts(Head(items), s, i))

\* the days of month m of year y: datetime(y, m, d) raises ValueError for a later d
DaysInMonth(y, m) ==
    IF m = 2 THEN (IF (y % 4 = 0 /\ y % 100 # 0) \/ y % 400 = 0 THEN 29 ELSE 28)
    ELSE IF m \in {4, 6, 9, 11} THEN 30 ELSE 31

\* the fields (year, month, day) a successful match of template fmt gives, <<>> when
\* strptime raises ValueError (no match, unconverted data, or no such calendar date)
StrptimeFields(s, fmt) ==
    LET items == StrptimeFormats[fmt]
        Pos(d) == CHOOSE k \in 1..Len(items) : items[k] = d
        Has(d) == \E k \in 1..Len(items) : items[k] = d
        Century(yy) == IF yy <= 68 THEN 2000 + yy ELSE 1900 + yy
        Date(year, month, day) ==
            IF year < 1 \/ day > DaysInMonth(year, month) THEN <<>>
            ELSE <<year, month, day>>
        \* bnd: the boundaries of the items in s
        Read(bnd) ==
            LET Txt(k) == SubSeq(s, bnd[k], bnd[k + 1] - 1)
            IN  IF bnd = <<>> \/ bnd[Len(bnd)] # Len(s) + 1 THEN <<>>
                ELSE Date(IF Has("Y") THEN StrToNat(Txt(Pos("Y")))
                          ELSE Century(StrToNat(Txt(Pos("y")))),
                          IF Has("m") THEN StrToNat(Txt(Pos("m")))
                          ELSE CHOOSE k \in 1..12 : MonthNames[k] = StrUpper(Txt(Pos("b"))),
                          \* int() of the matched %d: its ' [1-9]' form has a leading blank
                          StrToNat(LStrip(Txt(Pos("d")))))
    IN  Read(FormatMatch(s, 1, items))

\* dt.strftime("%Y-%m-%d"): %m and %d are zero-padded; %Y of a year below 1000 is
\* zero-padded or not, depending on the platform's C library
StrftimeResults(f) ==
    LET y == NatToStr(f[1])
        pad == IF f[1] < 10 THEN "000" ELSE IF f[1] < 100 THEN "00" ELSE IF f[1] < 1000 THEN "0" ELSE ""
        rest == "-" \o Zfill2(NatToStr(f[2])) \o "-" \o Zfill2(NatToStr(f[3]))
    IN  { y \o rest, pad \o y \o rest }

\* the loop over the templates: the values the first template that parses can give,
\* None when every template raises ValueError
StrptimeResults(s) ==
    LET First(parsing) ==
            IF parsing = {} THEN { PyNone }
            ELSE { PyStr(r) : r \in StrftimeResults(StrptimeFields(s, SetMin(parsing))) }
    IN  First({ k \in 1..Len(StrptimeFormats) : StrptimeFields(s, k) # <<>> })

\* parse_date with the two-digit-year pattern (4) tried before patterns 2 and 3:
\* the pattern order is part of the function's behaviour
ParseDateYearFirst(s) ==
    LET First(g1, g2, g3, g4) ==
            IF g1 # <<>> THEN { PyStr(PatternResult(1, g1)) }
            ELSE IF g4 # <<>> THEN { PyStr(PatternResult(4, g4)) }
            ELSE IF g2 # <<>> THEN { PyStr(PatternResult(2, g2)) }
            ELSE IF g3 # <<>> THEN { PyStr(PatternResult(3, g3)) }
            ELSE StrptimeResults(s)
    IN  First(Groups(Search(pattern1, s, FALSE), s), Groups(Search(pattern2, s, FALSE), s),
              Groups(Search(pattern3, s, FALSE), s), Groups(Search(pattern4, s, FALSE), s))

\* parse_date: the values the call can return.  g1..g4 are the groups of the match of
\* pattern1..pattern4 (<<>> for no match); the first pattern that matches decides
ParseDateResults(s) ==
    LET First(g1, g2, g3, g4) ==
            IF g1 # <<>> THEN { PyStr(PatternResult(1, g1)) }
            ELSE IF g2 # <<>> THEN { PyStr(PatternResult(2, g2)) }
            ELSE IF g3 # <<>> THEN { PyStr(PatternResult(3, g3)) }
            ELSE IF g4 # <<>> THEN { PyStr(PatternResult(4, g4)) }
            ELSE StrptimeResults(s)
    IN  First(Groups(Search(pattern1, s, FALSE), s), Groups(Search(pattern2, s, FALSE), s),
              Groups(Search(pattern3, s, FALSE), s), Groups(Search(pattern4, s, FALSE), s))

(***************************************************************************)
(* classify_message_type                                                   *)
(***************************************************************************)
\* Python's  kw in s
Contains(kw, s) ==
    \E i \in 1..(Len(s) - Len(kw) + 1) : SubSeq(s, i, i + Len(kw) - 1) = kw

ContainsAny(kws, s) == \E kw \in kws : Contains(kw, s)

Categories ==
    {"SALARY_CREDIT", "EMI_PAYMENT", "CREDIT_CARD_TRANSACTION", "SIP_INVESTMENT",
     "CREDIT_TRANSACTION", "DEBIT_TRANSACTION", "INSURANCE_PAYMENT", "OTHER_FINANCIAL"}

\* a classifier without the default category
ClassifyMainNoDefault(message) ==
    LET message_lower == StrLower(message)
    IN  IF ContainsAny({"salary", "credited", "deposited"}, message_lower)
        THEN "SALARY_CREDIT"
        ELSE IF /\ ContainsAny({"loan", "emi"}, message_lower)
                /\ ContainsAny({"debited", "deducted", "due on"}, message_lower)
        THEN "EMI_PAYMENT"
        ELSE IF ContainsAny({"credit card", "creditcard", "card member"}, message_lower)
        THEN "CREDIT_CARD_TRANSACTION"
        ELSE IF /\ Contains("sip", message_lower)
                /\ ContainsAny({"processed", "deducted", "under folio", "has been processed"},
                               message_lower)
        THEN "SIP_INVESTMENT"
        ELSE IF ContainsAny({"insurance", "premium", "policy"}, message_lower)
        THEN "INSURANCE_PAYMENT"
        ELSE IF ContainsAny({"credited", "deposited"}, message_lower)
        THEN "CREDIT_TRANSACTION"
        ELSE IF ContainsAny({"debited", "deducted"}, message_lower)
        THEN "DEBIT_TRANSACTION"
        ELSE "UNKNOWN"

\* classify_message_type with a first rule that asks for "salary" alone
ClassifyMainSalaryOnly(message) ==
    LET message_lower == StrLower(message)
    IN  IF Contains("salary", message_lower)
        THEN "SALARY_CREDIT"
        ELSE IF /\ ContainsAny({"loan", "emi"}, message_lower)
                /\ ContainsAny({"debited", "deducted", "due on"}, message_lower)
        THEN "EMI_PAYMENT"
        ELSE IF ContainsAny({"credit card", "creditcard", "card member"}, message_lower)
        THEN "CREDIT_CARD_TRANSACTION"
        ELSE IF /\ Contains("sip", message_lower)
                /\ ContainsAny({"processed", "deducted", "under folio", "has been processed"},
                               message_lower)
        THEN "SIP_INVESTMENT"
        ELSE IF ContainsAny({"insurance", "premium", "policy"}, message_lower)
        THEN "INSURANCE_PAYMENT"
        ELSE IF ContainsAny({"credited", "deposited"}, message_lower)
        THEN "CREDIT_TRANSACTION"
        ELSE IF ContainsAny({"debited", "deducted"}, message_lower)
        THEN "DEBIT_TRANSACTION"
        ELSE "OTHER_FINANCIAL"

\* classify_message_type with the insurance rule ahead of the EMI rule
ClassifyMainInsuranceFirst(message) ==
    LET message_lower == StrLower(message)
    IN  IF ContainsAny({"salary", "credited", "deposited"}, message_lower)
        THEN "SALARY_CREDIT"
        ELSE IF ContainsAny({"insurance", "premium", "policy"}, message_lower)
        THEN "INSURANCE_PAYMENT"
        ELSE IF /\ ContainsAny({"loan", "emi"}, message_lower)
                /\ ContainsAny({"debited", "deducted", "due on"}, message_lower)
        THEN "EMI_PAYMENT"
        ELSE IF ContainsAny({"credit card", "creditcard", "card member"}, message_lower)
        THEN "CREDIT_CARD_TRANSACTION"
        ELSE IF /\ Contains("sip", message_lower)
                /\ ContainsAny({"processed", "deducted", "under folio", "has been processed"},
                               message_lower)
        THEN "SIP_INVESTMENT"
        ELSE IF ContainsAny({"credited", "deposited"}, message_lower)
        THEN "CREDIT_TRANSACTION"
        ELSE IF ContainsAny({"debited", "deducted"}, message_lower)
        THEN "DEBIT_TRANSACTION"
        ELSE "OTHER_FINANCIAL"

\* main_with_api.classify_message_type
ClassifyMain(message) ==
    LET message_lower == StrLower(message)
    IN  IF ContainsAny({"salary", "credited", "deposited"}, message_lower)
        THEN "SALARY_CREDIT"
        ELSE IF /\ ContainsAny({"loan", "emi"}, message_lower)
                /\ ContainsAny({"debited", "deducted", "due on"}, message_lower)
        THEN "EMI_PAYMENT"
        ELSE IF ContainsAny({"credit card", "creditcard", "card member"}, message_lower)
        THEN "CREDIT_CARD_TRANSACTION"
        ELSE IF /\ Contains("sip", message_lower)
                /\ ContainsAny({"processed", "deducted", "under folio", "has been processed"},
                               message_lower)
        THEN "SIP_INVESTMENT"
        ELSE IF ContainsAny({"insurance", "premium", "policy"}, message_lower)
        THEN "INSURANCE_PAYMENT"
        ELSE IF ContainsAny({"credited", "deposited"}, message_lower)
        THEN "CREDIT_TRANSACTION"
        ELSE IF ContainsAny({"debited", "deducted"}, message_lower)
        THEN "DEBIT_TRANSACTION"
        ELSE "OTHER_FINANCIAL"

\* routes.classify_message_type: message is rebound to its lower-cased form first
ClassifyRoutes(message0) ==
    LET message == StrLower(message0)
    IN  IF /\ ContainsAny({"salary", "deposited", "credited"}, message)
           /\ ContainsAny({"hdfc", "sbi", "icici", "axis"}, StrLower(message))
        THEN "SALARY_CREDIT"
        ELSE IF /\ ContainsAny({"loan", "emi"}, message)
                /\ ContainsAny({"debited", "deducted"}, message)
        THEN "EMI_PAYMENT"
        ELSE IF ContainsAny({"credit card", "creditcard", "card member"}, message)
        THEN "CREDIT_CARD_TRANSACTION"
        ELSE IF /\ Contains("sip", message)
                /\ ContainsAny({"processed", "deducted", "under folio", "has been processed"},
                               message)
        THEN "SIP_INVESTMENT"
        ELSE IF ContainsAny({"credited", "deposited"}, message)
        THEN "CREDIT_TRANSACTION"
        ELSE IF ContainsAny({"debited", "deducted"}, message)
        THEN "DEBIT_TRANSACTION"
        ELSE "OTHER_FINANCIAL"

(***************************************************************************)
(* Inputs of the classifier specification: messages of at most MaxWords    *)
(* different vocabulary entries joined by blanks                           *)
(***************************************************************************)
MaxWords == 3

Vocabulary ==
    {"Salary", "credited", "deposited", "loan", "EMI", "debited", "deducted", "due on",
     "credit card", "creditcard", "card member", "SIP", "processed", "under folio",
     "insurance", "premium", "policy", "HDFC"}

RECURSIVE WordSeqs(_)
WordSeqs(n) ==
    IF n = 0 THEN { <<>> }
    ELSE LET shorter == WordSeqs(n - 1)
         IN  shorter \cup { Append(q, w) : q \in { x \in shorter : Len(x) = n - 1 },
                                            w \in Vocabulary }

RECURSIVE JoinWords(_)
JoinWords(q) == IF Len(q) = 1 THEN q[1] ELSE q[1] \o " " \o JoinWords(Tail(q))

ClassifyInputs ==
    { JoinWords(q) : q \in { x \in WordSeqs(MaxWords) :
                               x # <<>> /\ Cardinality({ x[k] : k \in 1..Len(x) }) = Len(x) } }

(***************************************************************************)
(* clean_numeric_string (identical in main_with_api.py and routes.py)      *)
(***************************************************************************)
\* None for a falsy argument
\* clean_numeric_string keeping the last '.' of several instead of the first
CleanKeepsLastDot(value_str) ==
    LET cleaned1 == RemoveAll(value_str, ",")
        cleaned2 == IF cleaned1 # "" /\ At(cleaned1, Len(cleaned1)) = "."
                    THEN SubSeq(cleaned1, 1, Len(cleaned1) - 1) ELSE cleaned1
        last_dot == SetMax({ i \in 1..Len(cleaned2) : At(cleaned2, i) = "." } \cup {0})
    IN  IF value_str = "" THEN PyNone
        ELSE IF StrCount(cleaned2, ".") > 1
        THEN PyStr(RemoveAll(SubSeq(cleaned2, 1, last_dot - 1), ".")
                   \o SubSeq(cleaned2, last_dot, Len(cleaned2)))
        ELSE PyStr(cleaned2)

clean_numeric_string(value_str) ==
    LET cleaned1 == RemoveAll(value_str, ",")
        cleaned2 == IF cleaned1 # "" /\ At(cleaned1, Len(cleaned1)) = "."
                    THEN SubSeq(cleaned1, 1, Len(cleaned1) - 1) ELSE cleaned1
        first_dot == StrFind(cleaned2, ".")
    IN  IF value_str = "" THEN PyNone
        ELSE IF StrCount(cleaned2, ".") > 1
        THEN PyStr(SubSeq(cleaned2, 1, first_dot)
                   \o RemoveAll(SubSeq(cleaned2, first_dot + 1, Len(cleaned2)), "."))
        ELSE PyStr(cleaned2)

(***************************************************************************)
(* sanitize_llm_data                                                       *)
(***************************************************************************)
IdentifierKeys == {"account_number", "card_number", "folio_number", "policy_number"}
NumericKeys == {"amount", "available_balance", "total_outstanding", "nav_value"}

\* main_with_api.sanitize_llm_data: the value stored under key
\* SanitizeMainValue turning a number into its text
SanitizeMainValueNumbersToText(key, value) ==
    IF value = PyNone THEN value
    ELSE IF key \in IdentifierKeys THEN PyStr(Strip(PyStrOf(value)))
    ELSE IF value.t = "str" THEN
        LET cleaned == Strip(value.v)
            dot == StrFind(cleaned, ".")
            undotted == IF dot = 0 THEN cleaned
                        ELSE SubSeq(cleaned, 1, dot - 1) \o SubSeq(cleaned, dot + 1, Len(cleaned))
            isdigit == /\ undotted # ""
                       /\ \A i \in 1..Len(undotted) : At(undotted, i) \in Digits \cup {"²"}
        IN  IF isdigit
            THEN IF dot # 0
                 THEN (IF FloatParses(cleaned) THEN FloatOf(cleaned) ELSE PyStr(cleaned))
                 ELSE (IF IntParses(cleaned) THEN IntOf(cleaned) ELSE PyStr(cleaned))
            ELSE PyStr(cleaned)
    ELSE PyStr(Strip(PyStrOf(value)))

SanitizeMainValue(key, value) ==
    IF value = PyNone THEN value
    ELSE IF key \in IdentifierKeys THEN PyStr(Strip(PyStrOf(value)))
    ELSE IF value.t = "str" THEN
        LET cleaned == Strip(value.v)
            dot == StrFind(cleaned, ".")
            \* cleaned.replace('.', '', 1)
            undotted == IF dot = 0 THEN cleaned
                        ELSE SubSeq(cleaned, 1, dot - 1) \o SubSeq(cleaned, dot + 1, Len(cleaned))
            \* str.isdigit(): every character has the Unicode digit property (the decimal
            \* digits and, among others, the superscript digits), and there is at least one
            isdigit == /\ undotted # ""
                       /\ \A i \in 1..Len(undotted) : At(undotted, i) \in Digits \cup {"²"}
        IN  IF isdigit
            THEN IF dot # 0
                 THEN (IF FloatParses(cleaned) THEN FloatOf(cleaned) ELSE PyStr(cleaned))
                 ELSE (IF IntParses(cleaned) THEN IntOf(cleaned) ELSE PyStr(cleaned))
            ELSE PyStr(cleaned)
    \* isinstance(value, (int, float)): bool is a subclass of int
    ELSE IF value.t \in {"int", "float", "bool"} THEN value
    ELSE PyStr(Strip(PyStrOf(value)))

\* a sanitizer that drops the null entries
SanitizeMainDropsNulls(data) ==
    [key \in { k \in DOMAIN data : data[k] # PyNone } |-> SanitizeMainValue(key, data[key])]
SanitizeMain(data) == [key \in DOMAIN data |-> SanitizeMainValue(key, data[key])]

\* routes.sanitize_llm_data: float(clean_numeric_string(value)) raises TypeError for
\* None and ValueError for a string that is no number; the key is then skipped
SanitizeRoutes(data) ==
    IF ~IsDict(data) \/ data = EmptyDict THEN EmptyDict
    ELSE LET IsNumericString(key) == data[key].t = "str" /\ key \in NumericKeys
             Converts(key) ==
                /\ clean_numeric_string(data[key].v) # PyNone
                /\ FloatParses(clean_numeric_string(data[key].v).v)
             kept == { key \in DOMAIN data : IsNumericString(key) => Converts(key) }
         IN  [key \in kept |->
                 IF IsNumericString(key)
                 THEN FloatOf(clean_numeric_string(data[key].v).v)
                 ELSE data[key]]

(***************************************************************************)
(* Inputs of the sanitizer specification: dicts of at most MaxFields       *)
(* entries                                                                 *)
(***************************************************************************)
MaxFields == 2

SanValues ==
    { PyNone, PyStr("123456"), PyStr(" 0016 "), PyStr("XX1234"), PyStr("1,234.56"),
      PyStr(" 12.50 "), PyStr("5."), PyStr("."), PyStr("Rs 500"), PyStr("²"),
      PyInt(123456), PyFloat(30441, 3), PyBool(TRUE), PyOther("[1, 2]") }

SanInputs ==
    LET keys == IdentifierKeys \cup {"amount", "bank_name"}
    IN  UNION { [ks -> SanValues] : ks \in { x \in SUBSET keys : Cardinality(x) <= MaxFields } }

(***************************************************************************)
(* More of Python's str and dict                                           *)
(***************************************************************************)
\* s[a-1:b] for 1 <= a, b <= len(s)
Slice(s, a, b) == IF a > b THEN "" ELSE SubSeq(s, a, b)

\* str.find(sub): 0 when absent, positions count from 1
FindSub(s, sub) ==
    LET hits == { i \in 1..(Len(s) - Len(sub) + 1) : SubSeq(s, i, i + Len(sub) - 1) = sub }
    IN  IF hits = {} THEN 0 ELSE SetMin(hits)

\* s.split(c) for a single character c
SplitChar(s, c) ==
    LET cuts == { i \in 1..Len(s) : At(s, i) = c }
        n == Cardinality(cuts)
        Cut(k) == CHOOSE p \in cuts : Cardinality({ q \in cuts : q < p }) = k - 1
    IN  [k \in 1..(n + 1) |->
            Slice(s, IF k = 1 THEN 1 ELSE Cut(k - 1) + 1, IF k = n + 1 THEN Len(s) ELSE Cut(k) - 1)]

\* s.replace(a, b) for single characters
RECURSIVE ReplaceChar(_, _, _)
ReplaceChar(s, a, b) ==
    IF Len(s) = 0 THEN ""
    ELSE IF Len(s) = 1 THEN (IF s = a THEN b ELSE s)
    ELSE LET mid == Len(s) \div 2
         IN  ReplaceChar(SubSeq(s, 1, mid), a, b) \o ReplaceChar(SubSeq(s, mid + 1, Len(s)), a, b)

\* a list, and a raised exception in place of a returned value
PyList(items) == [t |-> "list", v |-> items]
PyRaise(exc) == [t |-> "raise", exc |-> exc]
Raised(r) == "t" \in DOMAIN r /\ r.t = "raise"

\* bool(value)
Truthy(v) ==
    IF IsDict(v) THEN v # EmptyDict
    ELSE CASE v.t = "None" -> FALSE
           [] v.t = "str" -> v.v # ""
           [] v.t = "int" -> v.v # 0
           [] v.t = "float" -> v.m # 0
           [] v.t = "bool" -> v.v
           [] v.t = "list" -> v.v # <<>>
           [] OTHER -> TRUE

\* d.get(k), d[k] = v  (d.update(e) is e @@ d)
DictGet(d, k) == IF k \in DOMAIN d THEN d[k] ELSE PyNone
DictSet(d, k, v) == (k :> v) @@ d

(***************************************************************************)
(* routes.extract_financial_data and routes.extract_sip_data               *)
(***************************************************************************)
\* The entry a numeric capture adds to data: m = re.search(...); if m: the group is
\* cleaned and, when that leaves a string float() accepts, stored under key.
\* NumberEntry converting the capture as it stands, without clean_numeric_string
NumberEntryUncleaned(key, m, message) ==
    LET Entry(captured) ==
            IF FloatParses(captured)
            THEN key :> FloatOf(captured) ELSE EmptyDict
    IN  IF m = NoMatch THEN EmptyDict
        ELSE Entry(Groups(m, message)[1])
NumberEntry(key, m, message) ==
    LET Entry(cleaned) ==
            IF Truthy(cleaned) /\ FloatParses(cleaned.v)
            THEN key :> FloatOf(cleaned.v) ELSE EmptyDict
    IN  IF m = NoMatch THEN EmptyDict
        ELSE Entry(clean_numeric_string(Groups(m, message)[1]))
\* GroupEntry storing every capture under the key of the card merchant
GroupEntryUnderMerchant(key, m, message, strip) ==
    IF m = NoMatch THEN EmptyDict
    ELSE "merchant" :> PyStr(IF strip THEN Strip(Groups(m, message)[1])
                             ELSE Groups(m, message)[1])

\* The entry a captured string adds to data
GroupEntry(key, m, message, strip) ==
    IF m = NoMatch THEN EmptyDict
    ELSE key :> PyStr(IF strip THEN Strip(Groups(m, message)[1]) ELSE Groups(m, message)[1])

\* for bank in banks: if bank.lower() in message.lower(): data['bank_name'] = bank; break
BankEntry(banks, message) ==
    LET hits == { k \in 1..Len(banks) : Contains(StrLower(banks[k]), StrLower(message)) }
    IN  IF hits = {} THEN EmptyDict ELSE "bank_name" :> PyStr(banks[SetMin(hits)])

\* The entry the date capture adds to data.  extract_sip_data splits the capture at '/'
\* when it has one and at '-' otherwise; extract_financial_data replaces '/' by '-',
\* splits at '-' and expands a two-digit year.  day, month, year = parts raises
\* ValueError unless there are three parts.
DateEntry(m, message, sip) ==
    LET Entry(parts) ==
            IF Len(parts) # 3 THEN PyRaise("ValueError")
            ELSE "transaction_date" :>
                    PyStr((IF ~sip /\ Len(parts[3]) = 2 THEN "20" \o parts[3] ELSE parts[3])
                          \o "-" \o parts[2] \o "-" \o parts[1])
        Split(date_str0) ==
            IF sip
            THEN Entry(IF StrCount(date_str0, "/") > 0 THEN SplitChar(date_str0, "/")
                       ELSE SplitChar(date_str0, "-"))
            ELSE Entry(SplitChar(ReplaceChar(date_str0, "/", "-"), "-"))
    IN  IF m = NoMatch THEN EmptyDict ELSE Split(Groups(m, message)[1])

\* routes.extract_sip_data(message): the dict, or the exception it raises
ExtractSipDataRoutes(message) ==
    LET number == Grp(1, Cat(<< Plus(Cls(Digits \cup {","})), Opt(Lit(".")), Star(Cls(Digits)) >>))
        \* (?:Rs\.?|INR)\s*([\d,]+\.?\d*)
        amount_pattern ==
            Cat(<< Alt(<< Cat(<< Lit("Rs"), Opt(Lit(".")) >>), Lit("INR") >>),
                   Star(Cls(WhiteSpace)), number >>)
        \* (\d{2}[/-]\d{2}[/-]\d{4})
        date_pattern ==
            Grp(1, Cat(<< Rep(Cls(Digits), 2, 2), Cls({"-", "/"}), Rep(Cls(Digits), 2, 2),
                          Cls({"-", "/"}), Rep(Cls(Digits), 4, 4) >>))
        \* [Ff]olio\s+([A-Z0-9]+)
        folio_pattern ==
            Cat(<< Cls({"F", "f"}), Lit("olio"), Plus(Cls(WhiteSpace)),
                   Grp(1, Plus(Cls(Uppers \cup Digits))) >>)
        \* in\s+([A-Za-z\s\-]+?)(?:Regular|has been)
        fund_pattern ==
            Cat(<< Lit("in"), Plus(Cls(WhiteSpace)),
                   Grp(1, LazyRep(Cls(Letters \cup WhiteSpace \cup {"-"}), 1, Inf)),
                   Alt(<< Lit("Regular"), Lit("has been") >>) >>)
        \* NAV of\s+([\d\.]+)
        nav_pattern ==
            Cat(<< Lit("NAV of"), Plus(Cls(WhiteSpace)), Grp(1, Plus(Cls(Digits \cup {"."}))) >>)
        \* the statements after the date: they run when the date raised nothing
        After(date) ==
            IF Raised(date) THEN date
            ELSE NumberEntry("amount", Search(amount_pattern, message, FALSE), message)
                 @@ date
                 @@ GroupEntry("folio_number", Search(folio_pattern, message, FALSE),
                               message, FALSE)
                 @@ GroupEntry("fund_name", Search(fund_pattern, message, FALSE), message, TRUE)
                 @@ NumberEntry("nav_value", Search(nav_pattern, message, FALSE), message)
    IN  After(DateEntry(Search(date_pattern, message, FALSE), message, TRUE))

\* routes.extract_financial_data(message_type, message): the dict, or the exception
ExtractFinancialDataRoutes(message_type, message) ==
    LET \* (?:INR|Rs\.?|₹)
        currency == Alt(<< Lit("INR"), Cat(<< Lit("Rs"), Opt(Lit(".")) >>), Lit("₹") >>)
        \* ([\d,]+\.?\d*)
        number == Grp(1, Cat(<< Plus(Cls(Digits \cup {","})), Opt(Lit(".")), Star(Cls(Digits)) >>))
        \* (?:INR|Rs\.?|₹)\s*([\d,]+\.?\d*)
        amount_pattern == Cat(<< currency, Star(Cls(WhiteSpace)), number >>)
        \* (?:A/c|Ac\sNo\.|card ending|account)\s*([A-Z0-9]+\d{4}), re.IGNORECASE
        account_pattern ==
            Cat(<< Alt(<< Lit("A/c"), Cat(<< Lit("Ac"), Cls(WhiteSpace), Lit("No.") >>),
                          Lit("card ending"), Lit("account") >>),
                   Star(Cls(WhiteSpace)),
                   Grp(1, Cat(<< Plus(Cls(Uppers \cup Digits)), Rep(Cls(Digits), 4, 4) >>)) >>)
        \* (\d{2}[-/]\d{2}[-/]\d{2,4})
        date_pattern ==
            Grp(1, Cat(<< Rep(Cls(Digits), 2, 2), Cls({"-", "/"}), Rep(Cls(Digits), 2, 2),
                          Cls({"-", "/"}), Rep(Cls(Digits), 2, 4) >>))
        \* (?:Avl bal|available balance|net available balance)[^0-9]*(?:INR|Rs\.?|₹)\s*([\d,]+\.?\d*),
        \* re.IGNORECASE
        balance_pattern ==
            Cat(<< Alt(<< Lit("Avl bal"), Lit("available balance"),
                          Lit("net available balance") >>),
                   Star(NotCls(Digits)), currency, Star(Cls(WhiteSpace)), number >>)
        \* - ([A-Za-z\s]+) -
        employer_pattern ==
            Cat(<< Lit("- "), Grp(1, Plus(Cls(Letters \cup WhiteSpace))), Lit(" -") >>)
        \* ([A-Z0-9]+\d{6,})
        loan_ref_pattern ==
            Grp(1, Cat(<< Plus(Cls(Uppers \cup Digits)), Rep(Cls(Digits), 6, Inf) >>))
        \* Loan\s+([A-Za-z]+), re.IGNORECASE
        loan_type_pattern ==
            Cat(<< Lit("Loan"), Plus(Cls(WhiteSpace)), Grp(1, Plus(Cls(Letters))) >>)
        \* at\s+([A-Za-z\s]+)\s+on, re.IGNORECASE
        merchant_pattern ==
            Cat(<< Lit("at"), Plus(Cls(WhiteSpace)), Grp(1, Plus(Cls(Letters \cup WhiteSpace))),
                   Plus(Cls(WhiteSpace)), Lit("on") >>)
        \* Authorization code:- (\w+)
        auth_code_pattern ==
            Cat(<< Lit("Authorization code:- "),
                   Grp(1, Plus(Cls(Letters \cup Digits \cup {"_"}))) >>)
        \* total outstanding is\s+(?:Rs\.?|INR|₹)\s*([\d,]+\.?\d*), re.IGNORECASE
        outstanding_pattern ==
            Cat(<< Lit("total outstanding is"), Plus(Cls(WhiteSpace)),
                   Alt(<< Cat(<< Lit("Rs"), Opt(Lit(".")) >>), Lit("INR"), Lit("₹") >>),
                   Star(Cls(WhiteSpace)), number >>)
        \* loan_type = match.group(1) if match else "Personal Loan"
        LoanType(m) ==
            IF m = NoMatch THEN "loan_type" :> PyStr("Personal Loan")
            ELSE GroupEntry("loan_type", m, message, FALSE)
        \* the category-specific part
        specific ==
            CASE message_type = "SALARY_CREDIT" ->
                    GroupEntry("employer", Search(employer_pattern, message, FALSE), message, TRUE)
                    @@ BankEntry(<<"HDFC Bank", "SBI", "ICICI Bank", "Axis Bank">>, message)
              [] message_type = "EMI_PAYMENT" ->
                    GroupEntry("loan_reference", Search(loan_ref_pattern, message, FALSE),
                               message, FALSE)
                    @@ LoanType(Search(loan_type_pattern, message, TRUE))
                    @@ BankEntry(<<"HDFC Bank", "SBI", "ICICI Bank", "Axis Bank", "NNSB">>,
                                 message)
              [] message_type = "CREDIT_CARD_TRANSACTION" ->
                    GroupEntry("merchant", Search(merchant_pattern, message, TRUE), message, TRUE)
                    @@ GroupEntry("authorization_code",
                                  Search(auth_code_pattern, message, FALSE), message, FALSE)
                    @@ NumberEntry("total_outstanding",
                                   Search(outstanding_pattern, message, TRUE), message)
                    @@ BankEntry(<<"HDFC Bank", "SBI", "ICICI Bank", "Axis Bank">>, message)
              [] message_type = "SIP_INVESTMENT" -> ExtractSipDataRoutes(message)
              [] OTHER -> EmptyDict
        \* data.update(sip_data) and the like: the entries of the category come last
        Update(data, entries) == IF Raised(entries) THEN entries ELSE entries @@ data
        \* the statements after the date: they run when the date raised nothing
        After(date) ==
            IF Raised(date) THEN date
            ELSE Update(NumberEntry("amount", Search(amount_pattern, message, FALSE), message)
                        @@ GroupEntry("account_number",
                                      Search(account_pattern, message, TRUE), message, FALSE)
                        @@ date
                        @@ NumberEntry("available_balance",
                                       Search(balance_pattern, message, TRUE), message),
                        specific)
    IN  After(DateEntry(Search(date_pattern, message, FALSE), message, FALSE))

(***************************************************************************)
(* main_with_api.extract_financial_data and main_with_api.extract_sip_data *)
(* A result is a set of dicts: parse_date can have more than one value.    *)
(***************************************************************************)
\* parse_date on the captured texts in turn: the first value that is not None, None
\* when there is none
RECURSIVE ParsedDates(_)
ParsedDates(captures) ==
    IF captures = <<>> THEN { PyNone }
    ELSE UNION { IF parsed # PyNone THEN { parsed } ELSE ParsedDates(Tail(captures)) :
                 parsed \in ParseDateResults(Head(captures)) }

\* main_with_api.extract_sip_data(message)
ExtractSipDataMain(message) ==
    LET number == Grp(1, Cat(<< Plus(Cls(Digits \cup {","})), Opt(Lit(".")), Star(Cls(Digits)) >>))
        \* (?:Rs\.?|INR)\s*([\d,]+\.?\d*)
        amount_pattern ==
            Cat(<< Alt(<< Cat(<< Lit("Rs"), Opt(Lit(".")) >>), Lit("INR") >>),
                   Star(Cls(WhiteSpace)), number >>)
        \* SIP of (\d{2}/\d{2}/\d{4}), SIP of (\d{2}-\d{2}-\d{4}),
        \* SIP of (\d{2}-[A-Za-z]{3}-\d{2,4})
        date_patterns ==
            << Cat(<< Lit("SIP of "),
                      Grp(1, Cat(<< Rep(Cls(Digits), 2, 2), Lit("/"), Rep(Cls(Digits), 2, 2),
                                    Lit("/"), Rep(Cls(Digits), 4, 4) >>)) >>),
               Cat(<< Lit("SIP of "),
                      Grp(1, Cat(<< Rep(Cls(Digits), 2, 2), Lit("-"), Rep(Cls(Digits), 2, 2),
                                    Lit("-"), Rep(Cls(Digits), 4, 4) >>)) >>),
               Cat(<< Lit("SIP of "),
                      Grp(1, Cat(<< Rep(Cls(Digits), 2, 2), Lit("-"), Rep(Cls(Letters), 3, 3),
                                    Lit("-"), Rep(Cls(Digits), 2, 4) >>)) >>) >>
        \* (\d{2}[-/]\d{2}[-/]\d{4}|\d{2}[-\s][A-Za-z]{3}[-\s]\d{2,4})
        general_date_pattern ==
            Grp(1, Alt(<< Cat(<< Rep(Cls(Digits), 2, 2), Cls({"-", "/"}),
                                 Rep(Cls(Digits), 2, 2), Cls({"-", "/"}),
                                 Rep(Cls(Digits), 4, 4) >>),
                          Cat(<< Rep(Cls(Digits), 2, 2), Cls({"-"} \cup WhiteSpace),
                                 Rep(Cls(Letters), 3, 3), Cls({"-"} \cup WhiteSpace),
                                 Rep(Cls(Digits), 2, 4) >>) >>))
        \* [Ff]olio\s+([A-Z0-9]+)
        folio_pattern ==
            Cat(<< Cls({"F", "f"}), Lit("olio"), Plus(Cls(WhiteSpace)),
                   Grp(1, Plus(Cls(Uppers \cup Digits))) >>)
        \* in\s+([A-Za-z\s\-]+?)(?:Regular|has been)
        fund_pattern ==
            Cat(<< Lit("in"), Plus(Cls(WhiteSpace)),
                   Grp(1, LazyRep(Cls(Letters \cup WhiteSpace \cup {"-"}), 1, Inf)),
                   Alt(<< Lit("Regular"), Lit("has been") >>) >>)
        \* NAV of\s+([\d\.]+)
        nav_pattern ==
            Cat(<< Lit("NAV of"), Plus(Cls(WhiteSpace)), Grp(1, Plus(Cls(Digits \cup {"."}))) >>)
        \* the text a pattern captures, when it matches
        Capture(m) == IF m = NoMatch THEN <<>> ELSE << Groups(m, message)[1] >>
        Build(date) ==
            NumberEntry("amount", Search(amount_pattern, message, FALSE), message)
            @@ (IF date = PyNone THEN EmptyDict ELSE "transaction_date" :> date)
            @@ GroupEntry("folio_number", Search(folio_pattern, message, FALSE), message, FALSE)
            @@ GroupEntry("fund_name", Search(fund_pattern, message, FALSE), message, TRUE)
            @@ NumberEntry("nav_value", Search(nav_pattern, message, FALSE), message)
    IN  { Build(date) :
            date \in ParsedDates(Capture(Search(date_patterns[1], message, FALSE))
                                 \o Capture(Search(date_patterns[2], message, FALSE))
                                 \o Capture(Search(date_patterns[3], message, FALSE))
                                 \o Capture(Search(general_date_pattern, message, FALSE))) }

\* main_with_api.extract_financial_data(message_type, message)
ExtractFinancialDataMain(message_type, message) ==
    LET \* (?:INR|Rs\.?|₹)
        currency == Alt(<< Lit("INR"), Cat(<< Lit("Rs"), Opt(Lit(".")) >>), Lit("₹") >>)
        \* ([\d,]+\.?\d*)
        number == Grp(1, Cat(<< Plus(Cls(Digits \cup {","})), Opt(Lit(".")), Star(Cls(Digits)) >>))
        \* (?:\s+no)?\.?
        no_dot == Cat(<< Opt(Cat(<< Plus(Cls(WhiteSpace)), Lit("no") >>)), Opt(Lit(".")) >>)
        \* (?:INR|Rs\.?|₹)\s*([\d,]+\.?\d*)
        amount_pattern == Cat(<< currency, Star(Cls(WhiteSpace)), number >>)
        \* (?:A/c(?:\s+no)?\.?|Ac(?:\s+no)?\.?|card ending|account)\s*[:\-]?\s*([A-Z0-9]+\d{4}),
        \* re.IGNORECASE
        account_pattern ==
            Cat(<< Alt(<< Cat(<< Lit("A/c"), no_dot >>), Cat(<< Lit("Ac"), no_dot >>),
                          Lit("card ending"), Lit("account") >>),
                   Star(Cls(WhiteSpace)), Opt(Cls({":", "-"})), Star(Cls(WhiteSpace)),
                   Grp(1, Cat(<< Plus(Cls(Uppers \cup Digits)), Rep(Cls(Digits), 4, 4) >>)) >>)
        \* (\d{2}[-/]\d{2}[-/]\d{2,4}|\d{2}[-\s][A-Za-z]{3}[-\s]\d{2,4})
        date_pattern ==
            Grp(1, Alt(<< Cat(<< Rep(Cls(Digits), 2, 2), Cls({"-", "/"}),
                                 Rep(Cls(Digits), 2, 2), Cls({"-", "/"}),
                                 Rep(Cls(Digits), 2, 4) >>),
                          Cat(<< Rep(Cls(Digits), 2, 2), Cls({"-"} \cup WhiteSpace),
                                 Rep(Cls(Letters), 3, 3), Cls({"-"} \cup WhiteSpace),
                                 Rep(Cls(Digits), 2, 4) >>) >>))
        \* (?:Avl bal|available balance|net available balance)[^0-9]*(?:INR|Rs\.?|₹)\s*([\d,]+\.?\d*),
        \* re.IGNORECASE
        balance_pattern ==
            Cat(<< Alt(<< Lit("Avl bal"), Lit("available balance"),
                          Lit("net available balance") >>),
                   Star(NotCls(Digits)), currency, Star(Cls(WhiteSpace)), number >>)
        \* (?:from|to|by)?\s*([A-Z][A-Za-z\s]+)\s+(?:Bank|BANK|bank)
        bank_pattern ==
            Cat(<< Opt(Alt(<< Lit("from"), Lit("to"), Lit("by") >>)), Star(Cls(WhiteSpace)),
                   Grp(1, Cat(<< Cls(Uppers), Plus(Cls(Letters \cup WhiteSpace)) >>)),
                   Plus(Cls(WhiteSpace)), Alt(<< Lit("Bank"), Lit("BANK"), Lit("bank") >>) >>)
        \* - ([A-Za-z\s]+) -
        employer_pattern ==
            Cat(<< Lit("- "), Grp(1, Plus(Cls(Letters \cup WhiteSpace))), Lit(" -") >>)
        \* ([A-Z0-9]+\d{6,})
        loan_ref_pattern ==
            Grp(1, Cat(<< Plus(Cls(Uppers \cup Digits)), Rep(Cls(Digits), 6, Inf) >>))
        \* Loan\s+([A-Za-z]+), re.IGNORECASE
        loan_type_pattern ==
            Cat(<< Lit("Loan"), Plus(Cls(WhiteSpace)), Grp(1, Plus(Cls(Letters))) >>)
        \* at\s+([A-Za-z\s]+)\s+on, re.IGNORECASE
        merchant_pattern ==
            Cat(<< Lit("at"), Plus(Cls(WhiteSpace)), Grp(1, Plus(Cls(Letters \cup WhiteSpace))),
                   Plus(Cls(WhiteSpace)), Lit("on") >>)
        \* Authorization code[-:]?\s*(\w+)
        auth_code_pattern ==
            Cat(<< Lit("Authorization code"), Opt(Cls({"-", ":"})), Star(Cls(WhiteSpace)),
                   Grp(1, Plus(Cls(Letters \cup Digits \cup {"_"}))) >>)
        \* total outstanding is\s+(?:Rs\.?|INR|₹)\s*([\d,]+\.?\d*), re.IGNORECASE
        outstanding_pattern ==
            Cat(<< Lit("total outstanding is"), Plus(Cls(WhiteSpace)),
                   Alt(<< Cat(<< Lit("Rs"), Opt(Lit(".")) >>), Lit("INR"), Lit("₹") >>),
                   Star(Cls(WhiteSpace)), number >>)
        \* policy(?:\s+no\.?| number)?[:\-]?\s*([A-Z0-9]+), re.IGNORECASE
        policy_pattern ==
            Cat(<< Lit("policy"),
                   Opt(Alt(<< Cat(<< Plus(Cls(WhiteSpace)), Lit("no"), Opt(Lit(".")) >>),
                              Lit(" number") >>)),
                   Opt(Cls({":", "-"})), Star(Cls(WhiteSpace)),
                   Grp(1, Plus(Cls(Uppers \cup Digits))) >>)
        companies == <<"LIC", "HDFC Life", "ICICI Prudential", "SBI Life", "Tata AIA">>
        Capture(m) == IF m = NoMatch THEN <<>> ELSE << Groups(m, message)[1] >>
        \* data[key] = the capture if the pattern matched, else the default
        OrDefault(key, m, strip, default) ==
            IF m = NoMatch THEN key :> PyStr(default) ELSE GroupEntry(key, m, message, strip)
        BankName(m) ==
            IF m = NoMatch THEN EmptyDict
            ELSE "bank_name" :> PyStr(Strip(Groups(m, message)[1]) \o " Bank")
        Company(hits) ==
            IF hits = {} THEN EmptyDict
            ELSE "insurance_company" :> PyStr(companies[SetMin(hits)])
        \* the category-specific part
        specific ==
            CASE message_type = "SALARY_CREDIT" ->
                    { OrDefault("employer", Search(employer_pattern, message, FALSE), TRUE,
                                "General Transaction") }
              [] message_type = "EMI_PAYMENT" ->
                    { GroupEntry("loan_reference", Search(loan_ref_pattern, message, FALSE),
                                 message, FALSE)
                      @@ OrDefault("loan_type", Search(loan_type_pattern, message, TRUE), FALSE,
                                   "Personal Loan") }
              [] message_type = "CREDIT_CARD_TRANSACTION" ->
                    { GroupEntry("merchant", Search(merchant_pattern, message, TRUE),
                                 message, TRUE)
                      @@ GroupEntry("authorization_code",
                                    Search(auth_code_pattern, message, FALSE), message, FALSE)
                      @@ NumberEntry("total_outstanding",
                                     Search(outstanding_pattern, message, TRUE), message) }
              [] message_type = "SIP_INVESTMENT" -> ExtractSipDataMain(message)
              [] message_type = "INSURANCE_PAYMENT" ->
                    { GroupEntry("policy_number", Search(policy_pattern, message, TRUE),
                                 message, FALSE)
                      @@ Company({ k \in 1..Len(companies) :
                                     Contains(StrLower(companies[k]), StrLower(message)) })
                      @@ ("insurance_type" :> PyStr("Life Insurance")) }
              [] OTHER -> { EmptyDict }
        Common(date) ==
            NumberEntry("amount", Search(amount_pattern, message, FALSE), message)
            @@ GroupEntry("account_number", Search(account_pattern, message, TRUE),
                          message, FALSE)
            @@ (IF date = PyNone THEN EmptyDict ELSE "transaction_date" :> date)
            @@ NumberEntry("available_balance", Search(balance_pattern, message, TRUE), message)
            @@ BankName(Search(bank_pattern, message, FALSE))
    IN  { entries @@ Common(date) :
            entries \in specific,
            date \in ParsedDates(Capture(Search(date_pattern, message, FALSE))) }

(***************************************************************************)
(* The remote analysis: model.invoke(prompt) raises, or returns a text.    *)
(* json.loads is modelled on the texts of this model: JsonTable gives the  *)
(* value of each text that is a JSON document, every other text raises     *)
(* JSONDecodeError.                                                        *)
(***************************************************************************)
JsonTable ==
    ("{\"message_type\": \"CREDIT_TRANSACTION\", \"extracted_data\": {\"amount\": \"1,234.56\", \"account_number\": 123456}, \"important_points\": [\"Amount credited\"]}" :>
        (("message_type" :> PyStr("CREDIT_TRANSACTION"))
         @@ ("extracted_data" :>
                (("amount" :> PyStr("1,234.56")) @@ ("account_number" :> PyInt(123456))))
         @@ ("important_points" :> PyList(<<PyStr("Amount credited")>>))))
    @@ ("{\"message_type\": \"SIP_INVESTMENT\", \"extracted_data\": {\"amount\": 2499.88, \"nav_value\": null, \"transaction_date\": \"2025-04-11\"}, \"important_points\": [\"SIP processed\"]}" :>
        (("message_type" :> PyStr("SIP_INVESTMENT"))
         @@ ("extracted_data" :>
                (("amount" :> PyFloat(249988, 2)) @@ ("nav_value" :> PyNone)
                 @@ ("transaction_date" :> PyStr("2025-04-11"))))
         @@ ("important_points" :> PyList(<<PyStr("SIP processed")>>))))
    @@ ("{\"message_type\": \"Financial Credit Alert\", \"extracted_data\": {\"amount\": 5000.0, \"transaction_date\": null}, \"important_points\": [\"Credit alert\"]}" :>
        (("message_type" :> PyStr("Financial Credit Alert"))
         @@ ("extracted_data" :>
                (("amount" :> PyFloat(5000, 0)) @@ ("transaction_date" :> PyNone)))
         @@ ("important_points" :> PyList(<<PyStr("Credit alert")>>))))
    @@ ("{\"message_type\": \"EMI_PAYMENT\", \"extracted_data\": {\"amount\": \"Rs 500\", \"transaction_date\": \"05/11/2024\", \"account_number\": \" XX1234 \"}, \"important_points\": [\"EMI paid\"]}" :>
        (("message_type" :> PyStr("EMI_PAYMENT"))
         @@ ("extracted_data" :>
                (("amount" :> PyStr("Rs 500")) @@ ("transaction_date" :> PyStr("05/11/2024"))
                 @@ ("account_number" :> PyStr(" XX1234 "))))
         @@ ("important_points" :> PyList(<<PyStr("EMI paid")>>))))
    @@ ("{\"message_type\": \"CREDIT_TRANSACTION\", \"extracted_data\": {\"amount\": 5000}}" :>
        (("message_type" :> PyStr("CREDIT_TRANSACTION"))
         @@ ("extracted_data" :> ("amount" :> PyInt(5000)))))
    @@ ("{\"message_type\": \"DEBIT_TRANSACTION\", \"extracted_data\": {\"amount\": 75.5}, \"important_points\": null}" :>
        (("message_type" :> PyStr("DEBIT_TRANSACTION"))
         @@ ("extracted_data" :> ("amount" :> PyFloat(755, 1)))
         @@ ("important_points" :> PyNone)))
    @@ ("{\"message_type\": \"DEBIT_TRANSACTION\", \"extracted_data\": {}, \"important_points\": []}" :>
        (("message_type" :> PyStr("DEBIT_TRANSACTION"))
         @@ ("extracted_data" :> EmptyDict)
         @@ ("important_points" :> PyList(<<>>))))
    @@ ("{\"message_type\": \"OTHER_FINANCIAL\", \"extracted_data\": null, \"important_points\": [\"Nothing found\"]}" :>
        (("message_type" :> PyStr("OTHER_FINANCIAL"))
         @@ ("extracted_data" :> PyNone)
         @@ ("important_points" :> PyList(<<PyStr("Nothing found")>>))))
    @@ ("[1, 2]" :> PyList(<<PyInt(1), PyInt(2)>>))

\* json.loads(text): blanks around the document are accepted
JsonLoads(text) ==
    IF Strip(text) \in DOMAIN JsonTable THEN JsonTable[Strip(text)]
    ELSE PyRaise("JSONDecodeError")

\* What model.invoke does: it raises, or answers with a text.  The texts are the
\* documents of JsonTable, each bare, in a markdown fence and in prose, and a refusal.
\* (The fence is three backquotes, a character that a string of this notation cannot
\* hold; the texts of the model have the apostrophe in its place.)
NoResponse == [kind |-> "none"]
LlmResponses ==
    LET Fenced(doc) == "'''json\n" \o doc \o "\n'''"
        InProse(doc) == "Here is the analysis: " \o doc \o " Let me know if you need more."
        texts == UNION { { doc, Fenced(doc), InProse(doc) } : doc \in DOMAIN JsonTable }
                 \cup { "I cannot analyze this message." }
    IN  { [kind |-> "raises"] } \cup { [kind |-> "content", text |-> w] : w \in texts }

\* main_with_api.extract_json_block(text)
extract_json_block(text) ==
    LET start == FindSub(text, "{")
        ends == { i \in 1..Len(text) : At(text, i) = "}" }
        end == IF ends = {} THEN 0 ELSE SetMax(ends)    \* text.rfind('}')
    IN  IF start # 0 /\ end # 0 /\ end > start THEN Slice(text, start, end) ELSE Strip(text)

\* main_with_api.analyze_with_llm, from the answer of model.invoke on: None, or the
\* document with its extracted_data sanitized.  A document that is no object fails the
\* key checks or the assignment, extracted_data that is no dict fails in
\* sanitize_llm_data (no .items()); every exception ends in return None.
AnalyzeWithLlmMain(response) ==
    IF response.kind = "raises" THEN PyNone
    ELSE LET result == JsonLoads(extract_json_block(response.text))
             required_keys == {"message_type", "extracted_data", "important_points"}
         IN  IF Raised(result) THEN PyNone
             ELSE IF ~IsDict(result) THEN PyNone
             ELSE IF ~(required_keys \subseteq DOMAIN result) THEN PyNone
             ELSE IF ~IsDict(result["extracted_data"]) THEN PyNone
             ELSE DictSet(result, "extracted_data", SanitizeMain(result["extracted_data"]))

\* routes.analyze_with_llm as it would be with the braces of the prompt escaped and the
\* service answering a SIP document without nav_value
AnalyzeWithLlmRoutesPromptEscaped(message) ==
    ("message_type" :> PyStr("SIP_INVESTMENT"))
    @@ ("extracted_data" :> ("amount" :> PyFloat(249988, 2)))
    @@ ("important_points" :> PyList(<<PyStr("SIP processed")>>))

\* routes.analyze_with_llm(message).  Its prompt is an f-string in which the sample JSON
\* object is written with single braces: evaluating it formats "message_type" with the
\* rest of the sample as the format specification, which raises ValueError before
\* model.invoke is reached.  The except clause of the function returns None, and no
\* statement after the prompt is executed.
AnalyzeWithLlmRoutes(message) == PyNone

(***************************************************************************)
(* store_financial_data: what a call leaves in the database.  A row is a   *)
(* table name with the values of the INSERT, in the statement's order.     *)
(***************************************************************************)
Row(table, values) == [table |-> table, values |-> values]

\* how the database answers a call: the pool cannot be created; a statement before the
\* typed INSERT fails; the typed INSERT fails; all statements succeed; all succeed and
\* closing the pool fails
DbOutcomes == {"connect_fails", "early_fails", "insert_fails", "ok", "close_fails"}

customer_info == [customer_id |-> 1, customer_name |-> "Asha", phone_number |-> "9000000001"]

Cols(data, keys) == [k \in 1..Len(keys) |-> DictGet(data, keys[k])]

\* main_with_api.store_financial_data: data['transaction_date'], when present and truthy,
\* becomes the date strptime(..., '%Y-%m-%d') reads, or None
StoreDateMain(data) ==
    IF "transaction_date" \in DOMAIN data /\ Truthy(data["transaction_date"])
    THEN LET value == data["transaction_date"]
             f == IF value.t = "str" THEN StrptimeFields(value.v, 4) ELSE <<>>
         IN  DictSet(data, "transaction_date",
                     IF f = <<>> THEN PyNone
                     ELSE [t |-> "date", y |-> f[1], m |-> f[2], d |-> f[3]])
    ELSE data

\* the rows of a call of main_with_api.store_financial_data whose statements all succeed
\* (a category without a table has no typed row); data has its date converted
StoreRowsMain(message_type, data, raw_message) ==
    LET phone == <<PyStr(customer_info.phone_number)>>
        general ==
            Row("general_transactions",
                phone \o <<message_type>>
                \o Cols(data, <<"bank_name", "account_number", "amount", "transaction_date",
                                "available_balance">>))
        typed ==
            CASE message_type = PyStr("SALARY_CREDIT") ->
                    IF \/ ~Truthy(DictGet(data, "employer"))
                       \/ DictGet(data, "employer") = PyStr("General Transaction")
                    THEN { general }
                    ELSE { Row("salary_transactions",
                               phone \o Cols(data, <<"bank_name", "account_number", "amount",
                                                     "transaction_date", "employer",
                                                     "available_balance">>)) }
              [] message_type = PyStr("EMI_PAYMENT") ->
                    { Row("emi_payments",
                          phone \o Cols(data, <<"bank_name", "account_number", "amount",
                                                "transaction_date", "loan_reference",
                                                "loan_type", "available_balance">>)) }
              [] message_type = PyStr("CREDIT_CARD_TRANSACTION") ->
                    { Row("credit_card_transactions",
                          phone \o Cols(data, <<"bank_name", "account_number", "amount",
                                                "merchant", "transaction_date",
                                                "authorization_code", "available_balance",
                                                "total_outstanding">>)) }
              [] message_type = PyStr("SIP_INVESTMENT") ->
                    { Row("sip_investments",
                          phone \o Cols(data, <<"fund_name", "folio_number", "amount",
                                                "transaction_date", "nav_value">>)) }
              [] message_type \in {PyStr("CREDIT_TRANSACTION"), PyStr("DEBIT_TRANSACTION")} ->
                    { general }
              [] message_type = PyStr("INSURANCE_PAYMENT") ->
                    { Row("insurance_payments",
                          phone \o Cols(data, <<"policy_number", "insurance_company",
                                                "insurance_type", "amount",
                                                "transaction_date">>)) }
              [] OTHER -> {}
    IN  { Row("customers", <<PyInt(customer_info.customer_id),
                             PyStr(customer_info.customer_name),
                             PyStr(customer_info.phone_number)>>),
          Row("raw_messages", <<PyStr(raw_message), message_type, PyBool(TRUE)>>) }
        \cup typed

\* the rows of a call of routes.store_financial_data whose statements all succeed
StoreRowsRoutes(message_type, data, raw_message) ==
    LET typed ==
            CASE message_type = PyStr("SALARY_CREDIT") ->
                    { Row("salary_transactions",
                          Cols(data, <<"bank_name", "account_number", "amount",
                                       "transaction_date", "employer", "available_balance">>)) }
              [] message_type = PyStr("EMI_PAYMENT") ->
                    { Row("emi_payments",
                          Cols(data, <<"bank_name", "account_number", "amount",
                                       "transaction_date", "loan_reference", "loan_type",
                                       "available_balance">>)) }
              [] message_type = PyStr("CREDIT_CARD_TRANSACTION") ->
                    { Row("credit_card_transactions",
                          Cols(data, <<"bank_name", "account_number", "amount", "merchant",
                                       "transaction_date", "authorization_code",
                                       "available_balance", "total_outstanding">>)) }
              [] message_type = PyStr("SIP_INVESTMENT") ->
                    { Row("sip_investments",
                          Cols(data, <<"fund_name", "folio_number", "amount",
                                       "transaction_date", "nav_value">>)) }
              [] OTHER -> {}
    IN  { Row("raw_messages", <<PyStr(raw_message), message_type, PyBool(TRUE)>>) } \cup typed

\* the statements of a call are one transaction: its rows are kept when all succeed
Committed(outcome) == outcome \in {"ok", "close_fails"}

\* what store_financial_data gives back (both files): get_db_pool() is outside the try and
\* pool.close() is in the finally, so their exceptions escape; raw_message_id is None
\* until the INSERT into raw_messages has answered and keeps its value when a later
\* statement fails (the except only logs).  rows: the rows of the call when all succeed;
\* without a typed statement no statement after the raw INSERT can fail
StoreReturn(rows, outcome) ==
    IF outcome \in {"connect_fails", "close_fails"} THEN "raised"
    ELSE IF outcome = "ok" THEN "id"
    ELSE IF /\ outcome = "insert_fails"
            /\ \E row \in rows : row.table \notin {"customers", "raw_messages"}
    THEN "id"
    ELSE "null"

(***************************************************************************)
(* The core: main_with_api.process_single_message (called for each row of  *)
(* a CSV file) and routes.analyze_message (POST /analyze)                  *)
(***************************************************************************)
Result(message_type, important_points, data) ==
    [kind |-> "result", message_type |-> message_type, important_points |-> important_points,
     data |-> data]
Error(exc, detail) == [kind |-> "error", exc |-> exc, detail |-> detail]

\* process_single_message after analyze_with_llm returned llm_result, with the value
\* parse_date gave for the hint and the database's answer: <<outcome, rows stored>>
MainFinishResult(llm_result, message, parsed_date, outcome) ==
    IF ~Truthy(llm_result)
    THEN <<Error("ValueError", "LLM returned no result or failed to extract information"), {},
           "not_called">>
    ELSE LET message_type == llm_result["message_type"]
             data0 == llm_result["extracted_data"]
             \* stored: data after store_financial_data, which converts the date in place
             \* once the pool and the first statements have succeeded
             Finish(data, stored) ==
                IF outcome \in {"connect_fails", "close_fails"}
                THEN <<Error("Exception", "database"),
                       IF Committed(outcome)
                       THEN StoreRowsMain(message_type, stored, message) ELSE {},
                       StoreReturn({}, outcome)>>
                ELSE <<Result(message_type, llm_result["important_points"],
                              IF outcome = "early_fails" THEN data ELSE stored),
                       IF Committed(outcome)
                       THEN StoreRowsMain(message_type, stored, message) ELSE {},
                       StoreReturn(StoreRowsMain(message_type, stored, message), outcome)>>
             Dated(data) == Finish(data, StoreDateMain(data))
         IN  Dated(IF /\ \/ "transaction_date" \notin DOMAIN data0
                         \/ ~Truthy(data0["transaction_date"])
                      /\ Truthy(parsed_date)
                   THEN DictSet(data0, "transaction_date", parsed_date)
                   ELSE data0)

\* digits in groups of three: the ',' of a format specification
RECURSIVE Commas(_)
Commas(digits) ==
    IF Len(digits) <= 3 THEN digits
    ELSE Commas(SubSeq(digits, 1, Len(digits) - 3)) \o ","
         \o SubSeq(digits, Len(digits) - 2, Len(digits))
\* f"{value:,.2f}" of a float that is not negative: exact for a value of at most two
\* decimals; a longer one is rounded to the nearest hundredth, a tie to the even one
Money(value) ==
    LET cents == IF value.e <= 2 THEN value.m * Pow10(2 - value.e)
                 ELSE LET unit == Pow10(value.e - 2)
                          q == value.m \div unit
                          r == value.m % unit
                      IN  IF 2 * r > unit \/ (2 * r = unit /\ q % 2 = 1) THEN q + 1 ELSE q
    IN  Commas(NatToStr(cents \div 100)) \o "." \o PadLeft(NatToStr(cents % 100), 2)

\* the highlights of the fallback path of routes.analyze_message
RoutesFallbackPoints(message_type, data) ==
    LET Plain(key, text) ==
            IF key \in DOMAIN data THEN <<PyStr(text \o PyStrOf(data[key]))>> ELSE <<>>
        Amount(key, text) ==
            IF key \in DOMAIN data THEN <<PyStr(text \o Money(data[key]))>> ELSE <<>>
    IN  Amount("amount", "Transaction amount: ₹")
        \o Plain("transaction_date", "Date: ")
        \o Plain("bank_name", "Bank: ")
        \o Amount("available_balance", "Available balance: ₹")
        \o (IF message_type = "SALARY_CREDIT" /\ "employer" \in DOMAIN data
            THEN Plain("employer", "Salary from: ")
            ELSE IF message_type = "CREDIT_CARD_TRANSACTION" /\ "merchant" \in DOMAIN data
            THEN Plain("merchant", "Purchase at: ")
            ELSE IF message_type = "SIP_INVESTMENT" /\ "fund_name" \in DOMAIN data
            THEN Plain("fund_name", "Fund: ") \o Plain("nav_value", "NAV: ")
            ELSE <<>>)

\* analyze_message after analyze_with_llm returned llm_result:
\* <<outcome, rows stored, path taken>>
RoutesFinishResult(llm_result, message, outcome) ==
    IF /\ Truthy(llm_result)
       /\ "extracted_data" \in DOMAIN llm_result
       /\ Truthy(llm_result["extracted_data"])
    THEN LET message_type == llm_result["message_type"]
             important_points == llm_result["important_points"]
             data0 == llm_result["extracted_data"]
             \* MessageResponse(...) validates: message_type a str, important_points a
             \* list of str
             valid == /\ message_type.t = "str"
                      /\ important_points.t = "list"
                      /\ \A k \in 1..Len(important_points.v) : important_points.v[k].t = "str"
             Respond(data) ==
                IF ~valid
                THEN <<Error("ValidationError", "MessageResponse"),
                       IF Committed(outcome)
                       THEN StoreRowsRoutes(message_type, data, message) ELSE {},
                       "remote",
                       StoreReturn(StoreRowsRoutes(message_type, data, message), outcome)>>
                ELSE <<Result(message_type, important_points, data),
                       IF Committed(outcome)
                       THEN StoreRowsRoutes(message_type, data, message) ELSE {},
                       "remote",
                       StoreReturn(StoreRowsRoutes(message_type, data, message), outcome)>>
             Patch(sip_data) ==
                IF Raised(sip_data)
                THEN <<Error(sip_data.exc, "extract_sip_data"), {}, "remote", "not_called">>
                ELSE IF "nav_value" \in DOMAIN sip_data
                THEN Respond(DictSet(data0, "nav_value", sip_data["nav_value"]))
                ELSE Respond(data0)
         IN  IF /\ message_type = PyStr("SIP_INVESTMENT")
                /\ \/ "nav_value" \notin DOMAIN data0
                   \/ data0["nav_value"] = PyNone
             THEN Patch(ExtractSipDataRoutes(message))
             ELSE Respond(data0)
    ELSE LET Respond(message_type, data) ==
                IF Raised(data)
                THEN <<Error(data.exc, "extract_financial_data"), {}, "fallback",
                       "not_called">>
                ELSE <<Result(PyStr(message_type),
                              PyList(RoutesFallbackPoints(message_type, data)), data),
                       IF Committed(outcome)
                       THEN StoreRowsRoutes(PyStr(message_type), data, message) ELSE {},
                       "fallback",
                       StoreReturn(StoreRowsRoutes(PyStr(message_type), data, message),
                                   outcome)>>
             Extract(message_type) ==
                Respond(message_type, ExtractFinancialDataRoutes(message_type, message))
         IN  Extract(ClassifyRoutes(message))

(***************************************************************************)
(* The state: each specification below uses its own variables and leaves   *)
(* the others idle                                                         *)
(***************************************************************************)
Pending == [t |-> "pending"]

\* the dict processing_status starts as, and is reset to by an accepted request
IdleStatus == [total |-> 0, processed |-> 0, succeeded |-> 0, failed |-> 0, status |-> "idle"]

Idle(part) ==
    /\ part = "date" => date_str = "" /\ date_out = Pending /\ date_raised = FALSE
    /\ part = "classify" => cls_message = "" /\ cls_main = "pending" /\ cls_routes = "pending"
    /\ part = "sanitize" =>
            /\ san_data = EmptyDict /\ san_main = Pending /\ san_routes = Pending
            /\ san_twice = Pending
    /\ part = "core" =>
            /\ core_api = "none" /\ core_message = "" /\ core_hint = "" /\ core_pc = "idle"
            /\ core_response = NoResponse /\ core_llm = Pending /\ core_out = Pending
            /\ core_path = "none" /\ db_rows = {} /\ db_id = "not_called"
    /\ part = "clean" => num_str = "" /\ num_out = Pending /\ num_twice = Pending
    /\ part = "extract" =>
            /\ ext_type = "" /\ ext_message = "" /\ ext_main = Pending /\ ext_routes = Pending
    /\ part = "batch" =>
            /\ processing_status = IdleStatus /\ batch_reqs = <<>> /\ status_seen = IdleStatus

vars == <<date_str, date_out, date_raised, cls_message, cls_main, cls_routes,
          san_data, san_main, san_routes, san_twice, core_api, core_message, core_hint, core_pc,
          core_response, core_llm, core_out, core_path, db_rows, db_id,
          num_str, num_out, num_twice, ext_type, ext_message, ext_main, ext_routes,
          processing_status, batch_reqs, status_seen>>
date_vars == <<date_str, date_out, date_raised>>
cls_vars == <<cls_message, cls_main, cls_routes>>
san_vars == <<san_data, san_main, san_routes, san_twice>>
num_vars == <<num_str, num_out, num_twice>>
ext_vars == <<ext_type, ext_message, ext_main, ext_routes>>
core_vars == <<core_api, core_message, core_hint, core_pc, core_response, core_llm, core_out,
               core_path, db_rows, db_id>>
batch_vars == <<processing_status, batch_reqs, status_seen>>

(***************************************************************************)
(* The date specification: parse_date is called on one input               *)
(***************************************************************************)
DateInputs ==
    { l \o a \o s1 \o b \o s2 \o c \o t :
        l \in {"", "1"},
        a \in {"5", "05", "24", "69", "99", "2024", "0999"},
        s1 \in {"-", "/", " "},
        b \in {"5", "11", "06", "13", "MAY", "may", "Xyz"},
        s2 \in {"-", "/", " "},
        c \in {"3", "03", "24", "99", "2024", "202", " 5", "30"},
        t \in {"", "7"} }
    \cup {"05-MAY-24", "05/11/2024", "24-06-03", "not-a-date", "", "99/99/2024"}

InitDate ==
    /\ date_str \in DateInputs /\ date_out = Pending /\ date_raised = FALSE
    /\ Idle("classify") /\ Idle("sanitize") /\ Idle("core")
    /\ Idle("clean") /\ Idle("extract") /\ Idle("batch")

\* parse_date(date_str): every exception is caught inside (the outer try/except)
ParseDate ==
    /\ date_out = Pending
    /\ date_out' \in ParseDateResults(date_str)
    /\ date_raised' = FALSE
    /\ UNCHANGED <<date_str, cls_vars, san_vars, core_vars,
                   num_vars, ext_vars, batch_vars>>

SpecDate == InitDate /\ [][ParseDate]_vars

(***************************************************************************)
(* The classifier specification                                            *)
(***************************************************************************)
InitClassify ==
    /\ cls_message \in ClassifyInputs /\ cls_main = "pending" /\ cls_routes = "pending"
    /\ Idle("date") /\ Idle("sanitize") /\ Idle("core")
    /\ Idle("clean") /\ Idle("extract") /\ Idle("batch")

CallClassifyMain ==
    /\ cls_main = "pending"
    /\ cls_main' = ClassifyMain(cls_message)
    /\ UNCHANGED <<cls_message, cls_routes, date_vars, san_vars, core_vars,
                   num_vars, ext_vars, batch_vars>>

CallClassifyRoutes ==
    /\ cls_routes = "pending"
    /\ cls_routes' = ClassifyRoutes(cls_message)
    /\ UNCHANGED <<cls_message, cls_main, date_vars, san_vars, core_vars,
                   num_vars, ext_vars, batch_vars>>

SpecClassify == InitClassify /\ [][CallClassifyMain \/ CallClassifyRoutes]_vars

(***************************************************************************)
(* The sanitizer specification                                             *)
(***************************************************************************)
InitSanitize ==
    /\ san_data \in SanInputs /\ san_main = Pending /\ san_routes = Pending
    /\ san_twice = Pending
    /\ Idle("date") /\ Idle("classify") /\ Idle("core")
    /\ Idle("clean") /\ Idle("extract") /\ Idle("batch")

CallSanitizeMain ==
    /\ san_main = Pending
    /\ san_main' = SanitizeMain(san_data)
    /\ UNCHANGED <<san_data, san_routes, san_twice, date_vars, cls_vars, core_vars,
                   num_vars, ext_vars, batch_vars>>

CallSanitizeRoutes ==
    /\ san_routes = Pending
    /\ san_routes' = SanitizeRoutes(san_data)
    /\ UNCHANGED <<san_data, san_main, san_twice, date_vars, cls_vars, core_vars,
                   num_vars, ext_vars, batch_vars>>

\* main_with_api.sanitize_llm_data(san_main): the sanitizer on its own result
CallSanitizeMainAgain ==
    /\ san_main # Pending /\ san_twice = Pending
    /\ san_twice' = SanitizeMain(san_main)
    /\ UNCHANGED <<san_data, san_main, san_routes, date_vars, cls_vars, core_vars,
                   num_vars, ext_vars, batch_vars>>

SpecSanitize ==
    InitSanitize /\ [][CallSanitizeMain \/ CallSanitizeRoutes \/ CallSanitizeMainAgain]_vars

(***************************************************************************)
(* The specification of the core: one message is analyzed, by              *)
(* process_single_message or by analyze_message                            *)
(***************************************************************************)
CoreMessages ==
    { "",
      "   ",
      "Your A/c XX1234 credited with Rs.5,000.00 on 05-MAY-24. Avl bal Rs.12,300.50",
      "Greetings, Your SIP of 11/04/2025 for Rs.2499.88 under Folio XXXXXXX0016 in Mirae Asset Midcap Fund-Regular has been processed for NAV of 30.441.subject to realisation.Mirae Asset MF",
      "EMI of INR 2,500 for Loan Home A/c LN00123456 debited on 05/11/24 from ICICI Bank",
      "Your SIP of 11/04/2025 for Rs.2499.88 under Folio XXXXXXX0016 in Mirae Asset Midcap Fund-Regular has been processed for NAV of 30.441.",
      "Your SIP of 11/04-2025 for Rs.500 has been processed",
      "Thank you for using your Credit Card ending 1234 for Rs.1,299.00 at Big Bazaar on 02-03-2025. Authorization code:- AB12cd. Total outstanding is Rs.10,000.50",
      "Salary of Rs.50,000 credited - Acme Corp - to HDFC Bank A/c XX9876" }
\* the date column of the CSV row
CoreHints == {"", "05-MAY-24", "not-a-date", "99/99/2024"}

Init ==
    /\ core_api \in {"main", "routes"}
    /\ core_message \in CoreMessages
    /\ core_hint \in (IF core_api = "main" THEN CoreHints ELSE {""})
    /\ core_pc = "start"
    /\ core_response = NoResponse
    /\ core_llm = Pending
    /\ core_out = Pending
    /\ core_path = "none"
    /\ db_rows = {} /\ db_id = "not_called"
    /\ Idle("date") /\ Idle("classify") /\ Idle("sanitize")
    /\ Idle("clean") /\ Idle("extract") /\ Idle("batch")

\* process_single_message up to the call of analyze_with_llm
MainStart ==
    /\ core_api = "main" /\ core_pc = "start"
    /\ IF Strip(core_message) = ""
       THEN core_out' = Error("ValueError", "Message is empty or blank.") /\ core_pc' = "done"
       ELSE core_out' = core_out /\ core_pc' = "llm"
    /\ UNCHANGED <<core_api, core_message, core_hint, core_response, core_llm, core_path,
                   db_rows, db_id, date_vars, cls_vars, san_vars,
                   num_vars, ext_vars, batch_vars>>

\* analyze_with_llm(message) of main_with_api
MainAnalyze ==
    /\ core_api = "main" /\ core_pc = "llm"
    /\ \E response \in LlmResponses :
          /\ core_response' = response
          /\ core_llm' = AnalyzeWithLlmMain(response)
    /\ core_pc' = "analyzed"
    /\ UNCHANGED <<core_api, core_message, core_hint, core_out, core_path, db_rows, db_id,
                   date_vars, cls_vars, san_vars,
                   num_vars, ext_vars, batch_vars>>

\* process_single_message from the return of analyze_with_llm on
MainFinish ==
    /\ core_api = "main" /\ core_pc = "analyzed"
    /\ \E outcome \in DbOutcomes :
       \E parsed_date \in (IF core_hint # "" THEN ParseDateResults(core_hint) ELSE {PyNone}) :
       \E r \in { MainFinishResult(core_llm, core_message, parsed_date, outcome) } :
          /\ core_out' = r[1]
          /\ db_rows' = db_rows \cup r[2]
          /\ db_id' = r[3]
    /\ core_path' = IF Truthy(core_llm) THEN "remote" ELSE "none"
    /\ core_pc' = "done"
    /\ UNCHANGED <<core_api, core_message, core_hint, core_response, core_llm,
                   date_vars, cls_vars, san_vars,
                   num_vars, ext_vars, batch_vars>>

\* analyze_message up to the call of analyze_with_llm
RoutesStart ==
    /\ core_api = "routes" /\ core_pc = "start"
    /\ IF Strip(core_message) = ""
       THEN core_out' = Error("HTTPException", "Message cannot be empty") /\ core_pc' = "done"
       ELSE core_out' = core_out /\ core_pc' = "llm"
    /\ UNCHANGED <<core_api, core_message, core_hint, core_response, core_llm, core_path,
                   db_rows, db_id, date_vars, cls_vars, san_vars,
                   num_vars, ext_vars, batch_vars>>

\* analyze_with_llm(message) of routes: the service is not reached
RoutesAnalyze ==
    /\ core_api = "routes" /\ core_pc = "llm"
    /\ core_llm' = AnalyzeWithLlmRoutes(core_message)
    /\ core_pc' = "analyzed"
    /\ UNCHANGED <<core_api, core_message, core_hint, core_response, core_out, core_path,
                   db_rows, db_id, date_vars, cls_vars, san_vars,
                   num_vars, ext_vars, batch_vars>>

\* analyze_message from the return of analyze_with_llm on
RoutesFinish ==
    /\ core_api = "routes" /\ core_pc = "analyzed"
    /\ \E outcome \in DbOutcomes :
       \E r \in { RoutesFinishResult(core_llm, core_message, outcome) } :
          /\ core_out' = r[1]
          /\ db_rows' = db_rows \cup r[2]
          /\ core_path' = r[3]
          /\ db_id' = r[4]
    /\ core_pc' = "done"
    /\ UNCHANGED <<core_api, core_message, core_hint, core_response, core_llm,
                   date_vars, cls_vars, san_vars,
                   num_vars, ext_vars, batch_vars>>

Next == MainStart \/ MainAnalyze \/ MainFinish \/ RoutesStart \/ RoutesAnalyze \/ RoutesFinish

Spec == Init /\ [][Next]_vars

(***************************************************************************)
(* Properties                                                              *)
(***************************************************************************)
Finished == core_pc = "done"
Returned == Finished /\ core_out.kind = "result"

\* C1: for every message that is not blank, a failure of the remote analysis
\* (analyze_with_llm returned None: the model call raised, the text is no JSON, or a
\* required key is missing) ends in a result of the fallback path (Classifier, then
\* Field Extractor), never in an error.  (Checked under Spec.)
C1_RemoteFailureFallsBack ==
    (Finished /\ Strip(core_message) # "" /\ core_llm = PyNone)
        => (core_out.kind = "result" /\ core_path = "fallback")

\* C2: classify_message_type returns one of the eight categories, and OTHER_FINANCIAL
\* for a message in which no keyword of a rule occurs.  (Checked under SpecClassify.)
C2_ClassifyInTaxonomy ==
    LET text == StrLower(cls_message)
        no_rule == ~ContainsAny({"salary", "credited", "deposited", "loan", "emi", "debited",
                                 "deducted", "due on", "credit card", "creditcard",
                                 "card member", "sip", "insurance", "premium", "policy"}, text)
        Ok(category) ==
            category # "pending"
                => /\ category \in Categories
                   /\ no_rule => category = "OTHER_FINANCIAL"
    IN  Ok(cls_main) /\ Ok(cls_routes)
\* C2's case: both classifiers have answered a message that matches no rule
C2_Witness ==
    /\ cls_message = "HDFC"
    /\ cls_main = "OTHER_FINANCIAL" /\ cls_routes = "OTHER_FINANCIAL"

\* C3: the category of every result the core returns is one of the eight categories;
\* a message_type of the remote answer outside of them is not returned.
\* (Checked under Spec.)
C3_CategoryInTaxonomy ==
    Returned => core_out.message_type \in { PyStr(c) : c \in Categories }

\* C4: classify_message_type is the ordered list of eight rules on the lower-cased
\* text, first match wins, in both files.  (Checked under SpecClassify.)
C4_DecisionList ==
    LET text == StrLower(cls_message)
        Has(kws) == ContainsAny(kws, text)
        expected ==
            IF Has({"salary", "credited", "deposited"}) THEN "SALARY_CREDIT"
            ELSE IF Has({"loan", "emi"}) /\ Has({"debited", "deducted", "due on"})
            THEN "EMI_PAYMENT"
            ELSE IF Has({"credit card", "creditcard", "card member"})
            THEN "CREDIT_CARD_TRANSACTION"
            ELSE IF Has({"sip"}) /\ Has({"processed", "deducted", "under folio"})
            THEN "SIP_INVESTMENT"
            ELSE IF Has({"insurance", "premium", "policy"}) THEN "INSURANCE_PAYMENT"
            ELSE IF Has({"credited", "deposited"}) THEN "CREDIT_TRANSACTION"
            ELSE IF Has({"debited", "deducted"}) THEN "DEBIT_TRANSACTION"
            ELSE "OTHER_FINANCIAL"
    IN  /\ cls_main # "pending" => cls_main = expected
        /\ cls_routes # "pending" => cls_routes = expected

\* C5: a message with "salary" and "debited" and neither "loan" nor "emi" is a
\* SALARY_CREDIT, whatever else it contains, in both files.  (Checked under SpecClassify.)
C5_SalaryBeforeDebit ==
    LET text == StrLower(cls_message)
    IN  (/\ Contains("salary", text) /\ Contains("debited", text)
         /\ ~Contains("loan", text) /\ ~Contains("emi", text))
            => /\ cls_main \in {"pending", "SALARY_CREDIT"}
               /\ cls_routes \in {"pending", "SALARY_CREDIT"}

\* C6: sanitize_llm_data leaves every identifier that is not null as the trimmed string
\* of its value, whatever the type of the value, in both files.
\* (Checked under SpecSanitize.)
C6_IdentifiersAreStrings ==
    LET Ok(out) ==
            out # Pending
                => \A key \in IdentifierKeys \cap DOMAIN san_data :
                      san_data[key] # PyNone
                          => /\ key \in DOMAIN out
                             /\ out[key] = PyStr(Strip(PyStrOf(san_data[key])))
    IN  Ok(san_main) /\ Ok(san_routes)

\* C7: main_with_api.sanitize_llm_data keeps the set of keys and, for a field that is no
\* identifier, follows the table: null stays null; a string is trimmed, and is an int
\* when it is decimal digits only, a float when it is decimal digits with exactly one
\* point, the trimmed string otherwise; an int or float (a bool is an int) is unchanged;
\* a value of another type becomes the trimmed string of it.  (Checked under SpecSanitize.)
C7_RuleTable ==
    LET OfString(trimmed) ==
            LET points == StrCount(trimmed, ".")
                digits == Cardinality({ i \in 1..Len(trimmed) : At(trimmed, i) \in Digits })
            IN  IF digits = 0 \/ digits + points # Len(trimmed) \/ points > 1
                THEN PyStr(trimmed)
                ELSE IF points = 0 THEN PyInt(StrToNat(trimmed))
                ELSE FloatOf(trimmed)
        Table(value) ==
            CASE value.t = "None" -> PyNone
              [] value.t = "str" -> OfString(Strip(value.v))
              [] value.t \in {"int", "float", "bool"} -> value
              [] OTHER -> PyStr(Strip(PyStrOf(value)))
    IN  san_main # Pending
            => /\ DOMAIN san_main = DOMAIN san_data
               /\ \A key \in DOMAIN san_data \ IdentifierKeys :
                     san_main[key] = Table(san_data[key])
\* C7's case: a numeric-looking string became a float, next to a null that stayed
C7_Witness ==
    /\ san_main # Pending
    /\ DOMAIN san_data = {"amount", "bank_name"}
    /\ san_data["amount"] = PyStr(" 12.50 ") /\ san_main["amount"] = PyFloat(125, 1)
    /\ san_data["bank_name"] = PyNone /\ san_main["bank_name"] = PyNone

\* C8: in every result the core returns, amount, available_balance, total_outstanding
\* and nav_value are numbers, null or absent, never strings.  (Checked under Spec.)
C8_NumericFieldsAreNumbers ==
    Returned
        => \A key \in NumericKeys \cap DOMAIN core_out.data :
              core_out.data[key].t \in {"None", "int", "float"}

\* C9: parse_date raises nothing; a result that is not null is an ISO date (four year
\* digits, a month 01..12, a day 01..31, joined by '-'); the result is null when no
\* pattern accepts the input.  (Checked under SpecDate.)
C9_IsoOrNull ==
    LET IsIso(iso) ==
            /\ Len(iso) = 10
            /\ \A i \in {1, 2, 3, 4, 6, 7, 9, 10} : At(iso, i) \in Digits
            /\ At(iso, 5) = "-" /\ At(iso, 8) = "-"
            /\ StrToNat(SubSeq(iso, 6, 7)) \in 1..12
            /\ StrToNat(SubSeq(iso, 9, 10)) \in 1..31
        accepted == \/ \E pattern \in {pattern1, pattern2, pattern3, pattern4} :
                          Search(pattern, date_str, FALSE) # NoMatch
                    \/ StrptimeResults(date_str) # { PyNone }
    IN  /\ ~date_raised
        /\ date_out # Pending
              => /\ date_out # PyNone => IsIso(date_out.v)
                 /\ ~accepted => date_out = PyNone

\* C10: parse_date returns the result of the first of its patterns, in the order 1 to 5,
\* that matches, and null when none does; "05-MAY-24" gives "2024-05-05", "05/11/2024"
\* gives "2024-11-05", "24-06-03" gives "2024-06-03", "not-a-date" gives null.
\* (Checked under SpecDate.)
C10_FirstPatternWins ==
    LET Matches(k) ==
            CASE k = 1 -> Search(pattern1, date_str, FALSE) # NoMatch
              [] k = 2 -> Search(pattern2, date_str, FALSE) # NoMatch
              [] k = 3 -> Search(pattern3, date_str, FALSE) # NoMatch
              [] k = 4 -> Search(pattern4, date_str, FALSE) # NoMatch
              [] k = 5 -> StrptimeResults(date_str) # { PyNone }
        Results(k) ==
            CASE k = 1 -> { PyStr(PatternResult(1, Groups(Search(pattern1, date_str, FALSE),
                                                         date_str))) }
              [] k = 2 -> { PyStr(PatternResult(2, Groups(Search(pattern2, date_str, FALSE),
                                                         date_str))) }
              [] k = 3 -> { PyStr(PatternResult(3, Groups(Search(pattern3, date_str, FALSE),
                                                         date_str))) }
              [] k = 4 -> { PyStr(PatternResult(4, Groups(Search(pattern4, date_str, FALSE),
                                                         date_str))) }
              [] k = 5 -> StrptimeResults(date_str)
        matching == { k \in 1..5 : Matches(k) }
        Gives(input, output) == date_str = input => date_out = output
    IN  date_out # Pending
            => /\ IF matching = {} THEN date_out = PyNone
                  ELSE date_out \in Results(SetMin(matching))
               /\ Gives("05-MAY-24", PyStr("2024-05-05"))
               /\ Gives("05/11/2024", PyStr("2024-11-05"))
               /\ Gives("24-06-03", PyStr("2024-06-03"))
               /\ Gives("not-a-date", PyNone)
\* C10's case: an input that patterns 2, 4 and 5 all accept was read by pattern 2
C10_Witness ==
    /\ date_str = "05/11/2024" /\ date_out = PyStr("2024-11-05")
    /\ Search(pattern1, date_str, FALSE) = NoMatch
    /\ Search(pattern2, date_str, FALSE) # NoMatch
    /\ Search(pattern4, date_str, FALSE) # NoMatch

\* C11: whenever parse_date takes the year from two digits of its input (pattern 1 with
\* a two-digit year group, pattern 4, or the strptime templates with %y), the year of
\* the result is 20YY, never in the 1900s.  (Checked under SpecDate.)
C11_TwoDigitYearIs20YY ==
    LET Found(pattern) == Search(pattern, date_str, FALSE) # NoMatch
        parsing == { k \in 1..Len(StrptimeFormats) : StrptimeFields(date_str, k) # <<>> }
        two_digit ==
            IF Found(pattern1)
            THEN Len(Groups(Search(pattern1, date_str, FALSE), date_str)[3]) = 2
            ELSE IF Found(pattern2) \/ Found(pattern3) THEN FALSE
            ELSE IF Found(pattern4) THEN TRUE
            ELSE parsing # {} /\ "y" \in { StrptimeFormats[SetMin(parsing)][k] : k \in 1..5 }
    IN  (date_out \notin {Pending, PyNone} /\ two_digit)
            => /\ Len(date_out.v) = 10
               /\ SubSeq(date_out.v, 1, 2) = "20"

(***************************************************************************)
(* clean_numeric_string on its own: a call, and a second call on the       *)
(* value the first returned                                                *)
(***************************************************************************)
MaxNumLen == 4

\* the arguments: the texts of at most MaxNumLen characters over digits, ',', '.' and
\* the blank, and the examples of the documentation
NumInputs ==
    LET RECURSIVE Texts(_)
        Texts(n) ==
            IF n = 0 THEN { "" }
            ELSE LET shorter == Texts(n - 1)
                 IN  shorter \cup { t \o c : t \in { x \in shorter : Len(x) = n - 1 },
                                            c \in {"1", "2", ",", ".", " "} }
    IN  Texts(MaxNumLen) \cup {"1,234.56", "30.441.", "1.2.3"}

InitClean ==
    /\ num_str \in NumInputs /\ num_out = Pending /\ num_twice = Pending
    /\ Idle("date") /\ Idle("classify") /\ Idle("sanitize") /\ Idle("core")
    /\ Idle("extract") /\ Idle("batch")

\* clean_numeric_string(num_str)
CallClean ==
    /\ num_out = Pending
    /\ num_out' = clean_numeric_string(num_str)
    /\ UNCHANGED <<num_str, num_twice, date_vars, cls_vars, san_vars, core_vars, ext_vars, batch_vars>>

\* clean_numeric_string(num_out): None is falsy and gives None
CallCleanAgain ==
    /\ num_out # Pending /\ num_twice = Pending
    /\ num_twice' = IF num_out = PyNone THEN PyNone ELSE clean_numeric_string(num_out.v)
    /\ UNCHANGED <<num_str, num_out, date_vars, cls_vars, san_vars, core_vars, ext_vars, batch_vars>>

SpecClean == InitClean /\ [][CallClean \/ CallCleanAgain]_vars

\* C12: clean_numeric_string is idempotent on every text over digits, ',' and '.': the
\* second call returns what the first returned.  (Checked under SpecClean.)
C12_CleanIdempotent ==
    (/\ num_twice # Pending
     /\ \A i \in 1..Len(num_str) : At(num_str, i) \in Digits \cup {",", "."})
        => num_twice = num_out

\* C13: for an argument that is not empty, clean_numeric_string removes every ',', then
\* one trailing '.', and of several '.' keeps the first only; the other characters stay
\* in their order; "1,234.56" gives "1234.56", "30.441." gives "30.441", "1.2.3" gives
\* "1.23"; the result has at most one '.'.  (Checked under SpecClean.)
C13_CleanRule ==
    LET no_commas == RemoveAll(num_str, ",")
        trailing == no_commas # "" /\ At(no_commas, Len(no_commas)) = "."
        undotted == IF trailing THEN SubSeq(no_commas, 1, Len(no_commas) - 1) ELSE no_commas
        Gives(input, output) == num_str = input => num_out = PyStr(output)
    IN  (num_out # Pending /\ num_str # "")
            => /\ num_out.t = "str"
               /\ StrCount(num_out.v, ",") = 0
               /\ StrCount(num_out.v, ".") <= 1
               /\ RemoveAll(num_out.v, ".") = RemoveAll(no_commas, ".")
               /\ StrFind(num_out.v, ".") = StrFind(undotted, ".")
               /\ Gives("1,234.56", "1234.56")
               /\ Gives("30.441.", "30.441")
               /\ Gives("1.2.3", "1.23")
\* C13's case: of the two points of "1.2.3" the first was kept
C13_Witness ==
    num_str = "1.2.3" /\ num_out = PyStr("1.23")

\* C14: clean_numeric_string returns null for the empty text and for a text of blanks
\* only, and a string for every other argument.  (Checked under SpecClean.)
C14_CleanNullOnBlank ==
    num_out # Pending
        => IF Strip(num_str) = "" THEN num_out = PyNone ELSE num_out.t = "str"

\* C15: in process_single_message, when the extracted fields have no transaction_date
\* (missing or null) and parse_date(hint) is not null, the returned transaction_date is
\* parse_date(hint); when the hint is missing or unparseable it stays absent or null;
\* a transaction_date that was extracted is not changed by the hint.  A date object and
\* the ISO text of the same day count as equal.  (Checked under Spec.)
C15_HintDateFillsGap ==
    LET extracted == core_llm["extracted_data"]
        returned == DictGet(core_out.data, "transaction_date")
        hints == IF core_hint # "" THEN ParseDateResults(core_hint) ELSE { PyNone }
        SameDay(value, iso) ==
            \/ value = iso
            \/ /\ value.t = "date" /\ iso.t = "str"
               /\ StrptimeFields(iso.v, 4) = <<value.y, value.m, value.d>>
    IN  (Returned /\ core_api = "main")
            => IF DictGet(extracted, "transaction_date") = PyNone
               THEN IF hints = { PyNone } THEN returned = PyNone
                    ELSE \E iso \in hints : SameDay(returned, iso)
               ELSE Truthy(extracted["transaction_date"])
                        => \/ SameDay(returned, extracted["transaction_date"])
                           \/ returned = StoreDateMain(extracted)["transaction_date"]

\* C16: a message that is empty or blank fails at once with an input error, before the
\* remote analysis is called and before anything is stored; and no other failure ends a
\* call in an error.  (Checked under Spec.)
C16_OnlyBlankInputFails ==
    Finished
        => /\ Strip(core_message) = ""
                => /\ core_out.kind = "error"
                   /\ core_out.detail \in {"Message is empty or blank.", "Message cannot be empty"}
                   /\ core_response = NoResponse /\ core_llm = Pending
                   /\ db_rows = {}
           /\ core_out.kind = "error" => Strip(core_message) = ""

\* C17: main_with_api.analyze_with_llm accepts the answer exactly when the text from its
\* first '{' to its last '}' is a JSON object with the keys message_type, extracted_data
\* and important_points; otherwise it returns None; it raises nothing and a result it
\* returns has the three keys.  (Checked under Spec.)
C17_AcceptsIffThreeKeys ==
    LET required == {"message_type", "extracted_data", "important_points"}
        text == core_response.text
        opens == { i \in 1..Len(text) : At(text, i) = "{" }
        closes == { i \in 1..Len(text) : At(text, i) = "}" }
        SpanOk(span) ==
            /\ span \in DOMAIN JsonTable
            /\ IsDict(JsonTable[span])
            /\ required \subseteq DOMAIN JsonTable[span]
        well_formed ==
            /\ core_response.kind = "content"
            /\ opens # {} /\ closes # {} /\ SetMax(closes) > SetMin(opens)
            /\ SpanOk(SubSeq(text, SetMin(opens), SetMax(closes)))
    IN  (core_api = "main" /\ core_llm # Pending)
            => /\ ~Raised(core_llm)
               /\ (core_llm # PyNone) <=> well_formed
               /\ core_llm # PyNone => required \subseteq DOMAIN core_llm

ExtMessages ==
    { m \in CoreMessages : Strip(m) # "" }
    \cup { "Salary credited",
           "Premium of Rs.1,200 paid for policy no. LIC12345 of LIC on 05/11/2024",
           "EMI of Rs 900 deducted from Axis Bank A/c: XX4321 on 05-MAY-24",
           "Spent INR 250 at Cafe on 02/03/25 Authorization code: ZZ9",
           "Paid to Cafe on 05-11-24 via UPI", "Due on 24/06/03 for Loan A/c LN00123456" }

InitExtract ==
    /\ ext_type \in Categories /\ ext_message \in ExtMessages
    /\ ext_main = Pending /\ ext_routes = Pending
    /\ Idle("date") /\ Idle("classify") /\ Idle("sanitize") /\ Idle("core")
    /\ Idle("clean") /\ Idle("batch")

\* main_with_api.extract_financial_data(ext_type, ext_message)
CallExtractMain ==
    /\ ext_main = Pending
    /\ ext_main' \in ExtractFinancialDataMain(ext_type, ext_message)
    /\ UNCHANGED <<ext_type, ext_message, ext_routes, date_vars, cls_vars, san_vars,
                   core_vars, num_vars, batch_vars>>

\* routes.extract_financial_data(ext_type, ext_message)
CallExtractRoutes ==
    /\ ext_routes = Pending
    /\ ext_routes' = ExtractFinancialDataRoutes(ext_type, ext_message)
    /\ UNCHANGED <<ext_type, ext_message, ext_main, date_vars, cls_vars, san_vars,
                   core_vars, num_vars, batch_vars>>

SpecExtract == InitExtract /\ [][CallExtractMain \/ CallExtractRoutes]_vars

\* C19: the keys of extract_financial_data(C, message) are among the common keys and
\* the extra keys of category C; no key of another category appears.
\* (Checked under SpecExtract.)
C19_KeysOfCategoryOnly ==
    LET common == {"amount", "account_number", "transaction_date", "available_balance",
                   "bank_name"}
        extras ==
            CASE ext_type = "SALARY_CREDIT" -> {"employer"}
              [] ext_type = "EMI_PAYMENT" -> {"loan_reference", "loan_type"}
              [] ext_type = "CREDIT_CARD_TRANSACTION" ->
                    {"merchant", "authorization_code", "total_outstanding"}
              [] ext_type = "SIP_INVESTMENT" -> {"folio_number", "fund_name", "nav_value"}
              [] ext_type = "INSURANCE_PAYMENT" ->
                    {"policy_number", "insurance_company", "insurance_type"}
              [] OTHER -> {}
        Ok(out) == (out # Pending /\ ~Raised(out)) => DOMAIN out \subseteq common \cup extras
    IN  Ok(ext_main) /\ Ok(ext_routes)
\* C19's case: a SIP message extracted as a salary credit: the folio, fund and NAV that
\* the text names are not among the fields
C19_Witness ==
    /\ ext_type = "SALARY_CREDIT" /\ Contains("Folio", ext_message)
    /\ ext_main # Pending
    /\ DOMAIN ext_main = {"amount", "transaction_date", "employer"}

\* C20: in extract_financial_data a field is absent unless the text has what its pattern
\* looks for, except employer for SALARY_CREDIT (the text between the hyphens, else
\* "General Transaction"), loan_type for EMI_PAYMENT (the word after "Loan", else
\* "Personal Loan") and insurance_type for INSURANCE_PAYMENT ("Life Insurance"), which
\* are always present, in both files.  (Checked under SpecExtract.)
C20_AbsentUnlessMatched ==
    LET text == StrLower(ext_message)
        digits == \E i \in 1..Len(text) : At(text, i) \in Digits
        \* what the pattern of a field needs in the text
        Needs(key) ==
            CASE key = "amount" -> ContainsAny({"rs", "inr", "₹"}, text)
              [] key = "account_number" ->
                    ContainsAny({"a/c", "ac", "card ending", "account"}, text) /\ digits
              [] key = "transaction_date" -> digits
              [] key = "available_balance" -> Contains("bal", text)
              [] key = "bank_name" -> ContainsAny({"bank", "sbi"}, text)
              [] key = "employer" -> Contains("- ", text)
              [] key = "loan_reference" -> digits
              [] key = "loan_type" -> Contains("loan", text)
              [] key = "merchant" -> Contains("at", text) /\ Contains("on", text)
              [] key = "authorization_code" -> Contains("authorization code", text)
              [] key = "total_outstanding" -> Contains("total outstanding is", text)
              [] key = "folio_number" -> Contains("folio", text)
              [] key = "fund_name" -> Contains("in", text)
              [] key = "nav_value" -> Contains("nav of", text)
              [] key = "policy_number" -> Contains("policy", text)
              [] key = "insurance_company" ->
                    ContainsAny({"lic", "hdfc life", "icici prudential", "sbi life",
                                 "tata aia"}, text)
              [] OTHER -> FALSE
        Always(out, category, key, default) ==
            ext_type = category
                => /\ key \in DOMAIN out
                   /\ ~Needs(key) => out[key] = PyStr(default)
        Ok(out) ==
            (out # Pending /\ ~Raised(out))
                => /\ Always(out, "SALARY_CREDIT", "employer", "General Transaction")
                   /\ Always(out, "EMI_PAYMENT", "loan_type", "Personal Loan")
                   /\ ext_type = "INSURANCE_PAYMENT"
                        => DictGet(out, "insurance_type") = PyStr("Life Insurance")
                   /\ \A key \in DOMAIN out :
                         \/ Needs(key)
                         \/ <<ext_type, key>> \in { <<"SALARY_CREDIT", "employer">>,
                                                     <<"EMI_PAYMENT", "loan_type">>,
                                                     <<"INSURANCE_PAYMENT", "insurance_type">> }
    IN  Ok(ext_main) /\ Ok(ext_routes)

(***************************************************************************)
(* Worked examples of the fallback path                                    *)
(***************************************************************************)
CreditMessage ==
    "Your A/c XX1234 credited with Rs.5,000.00 on 05-MAY-24. Avl bal Rs.12,300.50"
SipMessage ==
    "Your SIP of 11/04/2025 for Rs.2499.88 under Folio XXXXXXX0016 in Mirae Asset Midcap Fund-Regular has been processed for NAV of 30.441."

\* C21: when the remote analysis is unavailable (analyze_with_llm returned None), the
\* call for the message "Your A/c XX1234 credited with Rs.5,000.00 on 05-MAY-24. Avl bal
\* Rs.12,300.50" ends in a result with category CREDIT_TRANSACTION, amount 5000.00,
\* transaction_date "2024-05-05" and available_balance 12300.50.  (Checked under Spec.)
C21_CreditExample ==
    (Finished /\ core_message = CreditMessage /\ core_llm = PyNone)
        => /\ core_out.kind = "result"
           /\ core_out.message_type = PyStr("CREDIT_TRANSACTION")
           /\ DictGet(core_out.data, "amount") = PyFloat(5000, 0)
           /\ DictGet(core_out.data, "transaction_date") = PyStr("2024-05-05")
           /\ DictGet(core_out.data, "available_balance") = PyFloat(123005, 1)

\* C22: on the fallback path the message "Your SIP of 11/04/2025 for Rs.2499.88 under
\* Folio XXXXXXX0016 in Mirae Asset Midcap Fund-Regular has been processed for NAV of
\* 30.441." is classified SIP_INVESTMENT and has folio_number "XXXXXXX0016", nav_value
\* 30.441 and transaction_date "2025-04-11"; the classifier and extract_sip_data of
\* main_with_api give the same for it.  (Checked under Spec.)
C22_SipExample ==
    LET Fields(data) ==
            /\ DictGet(data, "folio_number") = PyStr("XXXXXXX0016")
            /\ DictGet(data, "nav_value") = PyFloat(30441, 3)
            /\ DictGet(data, "transaction_date") = PyStr("2025-04-11")
    IN  (Returned /\ core_message = SipMessage /\ core_path = "fallback")
            => /\ core_out.message_type = PyStr("SIP_INVESTMENT")
               /\ Fields(core_out.data)
               /\ ClassifyMain(SipMessage) = "SIP_INVESTMENT"
               /\ \A data \in ExtractSipDataMain(SipMessage) : Fields(data)
\* C22's case: the SIP message answered on the fallback path with its NAV
C22_Witness ==
    /\ Returned /\ core_message = SipMessage /\ core_path = "fallback"
    /\ "nav_value" \in DOMAIN core_out.data

\* C23: in main_with_api rule 1 shadows rule 6: a message that contains "credited" or
\* "deposited" is classified SALARY_CREDIT, and classify_message_type returns
\* CREDIT_TRANSACTION for no message.  (Checked under SpecClassify.)
C23_CreditRuleShadowed ==
    cls_main # "pending"
        => /\ cls_main # "CREDIT_TRANSACTION"
           /\ ContainsAny({"credited", "deposited"}, StrLower(cls_message))
                => cls_main = "SALARY_CREDIT"
\* C23's case: a message with "credited" or "deposited" and without "salary", classified
C23_Witness ==
    /\ ContainsAny({"credited", "deposited"}, StrLower(cls_message))
    /\ ~Contains("salary", StrLower(cls_message))
    /\ cls_main = "SALARY_CREDIT"

\* C24: in main_with_api a message that contains "premium" together with "debited",
\* "deducted" or "due on", and none of "salary", "credited", "deposited", is classified
\* EMI_PAYMENT ("premium" contains "emi"), never INSURANCE_PAYMENT.  (Checked under
\* SpecClassify.)
C24_PremiumIsEmi ==
    LET text == StrLower(cls_message)
    IN  ( /\ cls_main # "pending"
          /\ Contains("premium", text)
          /\ ContainsAny({"debited", "deducted", "due on"}, text)
          /\ ~ContainsAny({"salary", "credited", "deposited"}, text) )
            => cls_main = "EMI_PAYMENT"
\* C24's case: a premium that was debited, deducted or is due, without the words "loan"
\* and "EMI" in the message
C24_Witness ==
    LET text == StrLower(cls_message)
    IN  /\ Contains("premium", text)
        /\ ContainsAny({"debited", "deducted", "due on"}, text)
        /\ ~Contains("loan", text)
        /\ \A i \in 1..(Len(text) - 2) :
              SubSeq(text, i, i + 2) = "emi"
                  => i > 2 /\ i + 4 <= Len(text) /\ SubSeq(text, i - 2, i + 4) = "premium"
        /\ cls_main = "EMI_PAYMENT"

(***************************************************************************)
(* The batch endpoints of main_with_api and the background task            *)
(* process_csv_file.  The handlers and the tasks are coroutines of one     *)
(* event loop: a step runs from one await that suspends to the next, and   *)
(* steps of different coroutines interleave.  A background task starts     *)
(* after the response of its request has been sent.                        *)
(***************************************************************************)
MaxRequests == 3
MaxRows == 2

\* a request record.  pc: "saving" (upload_csv_file at await file.read()), "rejected"
\* (the "Another file is already being processed" answer), "error" (another error
\* answer), "accepted" (the success answer), "running" (process_csv_file at the await of
\* a row), "completed", "failed".  queued: the task was added to the BackgroundTasks
\* object the framework runs.  left: rows after the current one.  busy: a job of an
\* upload-csv or process-csv request was accepted and unfinished when the request arrived
Request(kind, pc, queued) ==
    [kind |-> kind, pc |-> pc, queued |-> queued, left |-> 0,
     busy |-> \E q \in 1..Len(batch_reqs) :
                 /\ batch_reqs[q].kind \in {"upload", "process"}
                 /\ batch_reqs[q].pc \in {"accepted", "running"}]

InitBatch ==
    /\ processing_status = IdleStatus /\ batch_reqs = <<>> /\ status_seen = IdleStatus
    /\ Idle("date") /\ Idle("classify") /\ Idle("sanitize") /\ Idle("core")
    /\ Idle("clean") /\ Idle("extract")

\* POST /api/upload-csv up to await file.read()
upload_csv_file ==
    /\ Len(batch_reqs) < MaxRequests
    /\ IF processing_status.status = "processing"
       THEN /\ batch_reqs' = Append(batch_reqs, Request("upload", "rejected", FALSE))
            /\ UNCHANGED processing_status
       ELSE /\ processing_status' = IdleStatus
            /\ batch_reqs' = Append(batch_reqs, Request("upload", "saving", FALSE))
    /\ UNCHANGED <<status_seen, date_vars, cls_vars, san_vars, core_vars, num_vars, ext_vars>>

\* upload_csv_file from await file.read() on: the file is written and the task added, or
\* an exception gives the error answer
upload_csv_file_saved(r) ==
    /\ batch_reqs[r].pc = "saving"
    /\ \E saved \in BOOLEAN :
          batch_reqs' = [batch_reqs EXCEPT ![r].pc = IF saved THEN "accepted" ELSE "error",
                                           ![r].queued = saved]
    /\ UNCHANGED <<processing_status, status_seen, date_vars, cls_vars, san_vars, core_vars,
                   num_vars, ext_vars>>

\* POST /api/process-csv: no await in the handler
process_existing_csv ==
    /\ Len(batch_reqs) < MaxRequests
    /\ IF processing_status.status = "processing"
       THEN /\ batch_reqs' = Append(batch_reqs, Request("process", "rejected", FALSE))
            /\ UNCHANGED processing_status
       ELSE /\ processing_status' = IdleStatus
            /\ \E exists \in BOOLEAN :
                  batch_reqs' = Append(batch_reqs,
                                       Request("process", IF exists THEN "accepted" ELSE "error",
                                               exists))
    /\ UNCHANGED <<status_seen, date_vars, cls_vars, san_vars, core_vars, num_vars, ext_vars>>

\* POST /api/process-csv-file: the task is added to a BackgroundTasks object made in the
\* handler, which nothing runs; processing_status is not reset
process_csv_file_path ==
    /\ Len(batch_reqs) < MaxRequests
    /\ IF processing_status.status = "processing"
       THEN batch_reqs' = Append(batch_reqs, Request("path", "rejected", FALSE))
       ELSE \E exists \in BOOLEAN :
               batch_reqs' = Append(batch_reqs,
                                    Request("path", IF exists THEN "accepted" ELSE "error",
                                            FALSE))
    /\ UNCHANGED <<processing_status, status_seen, date_vars, cls_vars, san_vars, core_vars,
                   num_vars, ext_vars>>

\* process_csv_file's loop from a row on, up to the next await that suspends or the end:
\* skipped rows fail without an await (fewer than 4 columns, int(row[0]) raises, the
\* message is blank, analyze_with_llm returns None), each adding 1 to processed and to
\* failed; then the next row adds 1 to processed and awaits the store, or the rows are
\* used up and status becomes "completed".  Gives <<processing_status, pc, left>>
RunRows(status, left, skipped) ==
    LET counted == [status EXCEPT !.processed = @ + skipped, !.failed = @ + skipped]
    IN  IF skipped = left
        THEN <<[counted EXCEPT !.status = "completed"], "completed", 0>>
        ELSE <<[counted EXCEPT !.processed = @ + 1], "running", left - skipped - 1>>

\* the background task process_csv_file from its start: status "processing", the file is
\* opened and read (or that raises: status "failed"), the counters are set
process_csv_file(r) ==
    /\ batch_reqs[r].pc = "accepted" /\ batch_reqs[r].queued
    /\ \E readable \in BOOLEAN :
          IF ~readable
          THEN /\ processing_status' = [processing_status EXCEPT !.status = "failed"]
               /\ batch_reqs' = [batch_reqs EXCEPT ![r].pc = "failed"]
          ELSE \E rows \in 0..MaxRows : \E skipped \in 0..rows :
               \E run \in { RunRows([total |-> rows, processed |-> 0, succeeded |-> 0,
                                     failed |-> 0, status |-> "processing"], rows, skipped) } :
                  /\ processing_status' = run[1]
                  /\ batch_reqs' = [batch_reqs EXCEPT ![r].pc = run[2], ![r].left = run[3]]
    /\ UNCHANGED <<status_seen, date_vars, cls_vars, san_vars, core_vars, num_vars, ext_vars>>

\* process_csv_file resumed after await process_single_message(...): the row succeeded
\* or raised, and the loop goes on
process_csv_file_resumed(r) ==
    /\ batch_reqs[r].pc = "running"
    /\ \E raised \in BOOLEAN : \E skipped \in 0..batch_reqs[r].left :
       \E run \in { RunRows(IF raised
                            THEN [processing_status EXCEPT !.failed = @ + 1]
                            ELSE [processing_status EXCEPT !.succeeded = @ + 1],
                            batch_reqs[r].left, skipped) } :
          /\ processing_status' = run[1]
          /\ batch_reqs' = [batch_reqs EXCEPT ![r].pc = run[2], ![r].left = run[3]]
    /\ UNCHANGED <<status_seen, date_vars, cls_vars, san_vars, core_vars, num_vars, ext_vars>>

\* GET /api/process-status
get_processing_status ==
    /\ status_seen' = processing_status
    /\ UNCHANGED <<processing_status, batch_reqs, date_vars, cls_vars, san_vars, core_vars,
                   num_vars, ext_vars>>

NextBatch ==
    \/ upload_csv_file
    \/ process_existing_csv
    \/ process_csv_file_path
    \/ get_processing_status
    \/ \E r \in 1..Len(batch_reqs) :
          upload_csv_file_saved(r) \/ process_csv_file(r) \/ process_csv_file_resumed(r)

SpecBatch == InitBatch /\ [][NextBatch]_vars

\* the event loop runs every coroutine that is ready: a handler suspended at an await is
\* resumed, a task the framework holds is started, a task suspended at an await is resumed
SpecBatchFair ==
    /\ SpecBatch
    /\ \A r \in 1..MaxRequests :
          /\ WF_vars(r <= Len(batch_reqs) /\ upload_csv_file_saved(r))
          /\ WF_vars(r <= Len(batch_reqs) /\ process_csv_file(r))
          /\ WF_vars(r <= Len(batch_reqs) /\ process_csv_file_resumed(r))

\* C27: at most one batch job at a time: an upload-csv or process-csv request that
\* arrives while the job of an accepted upload-csv or process-csv request is unfinished
\* (accepted, running; not yet completed or failed) gets the "Another file is already
\* being processed" answer, in every interleaving.  (Checked under SpecBatch.)
C27_OneJobAtATime ==
    \A r \in 1..Len(batch_reqs) :
        ( /\ batch_reqs[r].kind \in {"upload", "process"}
          /\ batch_reqs[r].busy
          /\ batch_reqs[r].pc # "saving" )
            => batch_reqs[r].pc = "rejected"

\* C28: every processing_status that get_processing_status returns has
\* processed <= total and succeeded + failed <= processed, and with status "completed"
\* processed = total = succeeded + failed, in every interleaving.  (Checked under
\* SpecBatch.)
C28_CountersConsistent ==
    /\ status_seen.processed <= status_seen.total
    /\ status_seen.succeeded + status_seen.failed <= status_seen.processed
    /\ status_seen.status = "completed"
            => /\ status_seen.processed = status_seen.total
               /\ status_seen.total = status_seen.succeeded + status_seen.failed

\* C29: after /api/process-csv-file has answered "success" for a file, process_csv_file
\* for that file eventually runs: it is started, and later ends with status "completed"
\* or "failed".  (Checked under SpecBatchFair.)
C29_PathJobRuns ==
    \A r \in 1..MaxRequests :
        ( /\ r <= Len(batch_reqs)
          /\ batch_reqs[r].kind = "path"
          /\ batch_reqs[r].pc = "accepted" )
            ~> ( /\ r <= Len(batch_reqs)
                 /\ batch_reqs[r].pc \in {"completed", "failed"} )

\* C25: main_with_api.sanitize_llm_data is idempotent: sanitizing its own result gives
\* that result again, with the same keys, the same values and the same value types.
\* (Checked under SpecSanitize.)
C25_SanitizeIdempotent ==
    san_twice # Pending
        => /\ DOMAIN san_twice = DOMAIN san_main
           /\ \A key \in DOMAIN san_main : san_twice[key] = san_main[key]
\* C25's case: the first call changed a value (trimmed a string, turned a numeric string
\* into a number or another type into its text) and the second call has returned
C25_Witness ==
    /\ san_twice # Pending
    /\ \E key \in DOMAIN san_data :
          san_data[key].t = "str" /\ san_main[key].t \in {"int", "float"}
    /\ \E key \in DOMAIN san_data : san_data[key] # san_main[key] /\ san_main[key].t = "str"

\* C26: a capture of extract_financial_data's date pattern of the shape NN-NN-NN or
\* NN/NN/NN is read by parse_date as year, month, day: the first pair is the year 20NN
\* and the last pair the day, so "05-11-24" gives transaction_date "2005-11-24".  The
\* capture is the leftmost place where the pattern can begin (two digits and "-", "/" or
\* white space); for SIP_INVESTMENT a date extract_sip_data found replaces it.
\* (Checked under SpecExtract.)
C26_TwoDigitDateIsYearFirst ==
    LET text == ext_message
        IsDigit(i) == i <= Len(text) /\ At(text, i) \in Digits
        IsSep(i) == i <= Len(text) /\ At(text, i) \in {"-", "/"}
        starts == { i \in 1..Len(text) :
                        /\ IsDigit(i) /\ IsDigit(i + 1)
                        /\ i + 2 <= Len(text)
                        /\ At(text, i + 2) \in {"-", "/"} \cup WhiteSpace }
        Shape(i) == /\ IsDigit(i) /\ IsDigit(i + 1) /\ IsSep(i + 2)
                    /\ IsDigit(i + 3) /\ IsDigit(i + 4) /\ IsSep(i + 5)
                    /\ IsDigit(i + 6) /\ IsDigit(i + 7) /\ ~IsDigit(i + 8)
        YearFirst(i) ==
            PyStr("20" \o SubSeq(text, i, i + 1) \o "-" \o SubSeq(text, i + 3, i + 4)
                  \o "-" \o SubSeq(text, i + 6, i + 7))
        own_sip_date ==
            /\ ext_type = "SIP_INVESTMENT"
            /\ \E data \in ExtractSipDataMain(text) : "transaction_date" \in DOMAIN data
    IN  ( /\ ext_main # Pending /\ ~Raised(ext_main)
          /\ starts # {} /\ Shape(SetMin(starts))
          /\ ~own_sip_date )
            => DictGet(ext_main, "transaction_date") = YearFirst(SetMin(starts))
\* C26's case: the message with "05-11-24", read as the 24th of November 2005
C26_Witness ==
    /\ ext_message = "Paid to Cafe on 05-11-24 via UPI"
    /\ ext_main # Pending /\ ~Raised(ext_main)
    /\ DictGet(ext_main, "transaction_date") = PyStr("2005-11-24")

\* C30: store_financial_data is all-or-nothing and says so: it returns a raw message id
\* that is not null only if the raw_messages row and the row of the category are
\* committed; and when a statement of the transaction failed, so that nothing is
\* persisted, the id it returns is null.  (Checked under Spec.)
C30_StoreAllOrNothing ==
    Finished
        => /\ db_id = "id"
                => /\ \E row \in db_rows : row.table = "raw_messages"
                   /\ \E row \in db_rows : row.table \notin {"customers", "raw_messages"}
           /\ (db_id \in {"id", "null"} /\ db_rows = {}) => db_id = "null"

====
